---- MODULE Spec2Model ----
(***************************************************************************)
(* Model of the fix-application workflows of the SonarQube AI agent:       *)
(*   - CodeHealerWorkflow   (workflows/code_healer_workflow.py)            *)
(*   - CompleteSonarWorkflow (workflows/complete_workflow.py)              *)
(*   - CodeHealerAgent.process (agents/code_healer_agent.py)               *)
(*   - GitClient            (integrations/git_client.py)                   *)
(* Confidence scores are kept in tenths (0.8 is 8).  Python's None is the  *)
(* string "None"; a dict is a function over its keys.                      *)
(***************************************************************************)
EXTENDS Integers, Sequences, FiniteSets, TLC

\* ------------------------------------------------------------------ bounds
MaxPlans == 2
\* The longest sequence of file writes and GitClient calls explored on a
\* repository on its own.
MaxGitCalls == 4
\* The most issues _fetch_sonar_issues hands to the BugHunterWorkflow.
MaxIssues == 3
\* The longest batch of plans _group_fixes is tried on.
MaxBatch == 4
\* The most fix plans of one run when two runs are interleaved.
MaxRunFixes == 2
\* The most keyword arguments of one logging call.
MaxEntries == 2

\* ------------------------------------------------------- program constants
\* _is_valid_fix_plan: confidence_score > 0.5
ValidatorThreshold == 5
\* CodeHealerAgent.min_confidence_for_auto_fix = 0.8
MinConfidenceForAutoFix == 8
\* CodeHealerAgent.max_fixes_per_branch = 10
MaxFixesPerBranch == 10
\* BugHunterAgent.max_issues_per_run = 10
MaxIssuesPerRun == 10
\* MetadataProcessor(max_depth=3, max_length=1000)
MetadataMaxDepth == 3
MetadataMaxLength == 1000

\* ------------------------------------------------------------- input sets
Files == {"A.java", "B.java"}
Contents == {"orig", "fixA"}
Confs == {5, 6, 8}
None == "None"

\* FixPlan (models.py): the fields the workflows read.
FixPlanAt(k, f, s, c, n) ==
    [issue_key |-> k, file_path |-> f, proposed_solution |-> s, confidence_score |-> c,
     line_number |-> n]

\* A plan for the first line of its file.
FixPlan(k, f, s, c) == FixPlanAt(k, f, s, c, 1)

PlanKinds ==
    { FixPlan("K", "A.java", "S", c) : c \in Confs }
      \cup { FixPlan("K", "B.java", "S", 8),
             FixPlan("", "A.java", "S", 8), FixPlan("K", "", "S", 8), FixPlan("K", "A.java", "", 8) }

SeqsUpTo(S, n) == UNION { [1..k -> S] : k \in 0..n }

\* A batch of three plans for one file, two with a confidence above the
\* validator's threshold and one below it.
ExampleBatch ==
    << FixPlan("K", "A.java", "S", 8), FixPlan("K", "A.java", "S", 8),
       FixPlan("K", "A.java", "S", 5) >>

PlanLists == SeqsUpTo(PlanKinds, MaxPlans) \cup {ExampleBatch}

\* The number of lines of a file content (len(content.split('\n'))).
LineCount(content) == IF content = "orig" THEN 3 ELSE 4

\* A plan whose line_number lies beyond the last line of every file content.
OutOfRangePlan == FixPlanAt("K", "A.java", "S", 8, 99)

\* The plans CodeHealerAgent.process tells apart: it reads the confidence, the
\* file path and the line number of a plan and never looks at whether the
\* issue key or the proposed solution is empty.
AgentPlanKinds ==
    { FixPlan("K", "A.java", "S", 8), FixPlan("K", "A.java", "S", 5),
      FixPlan("K", "B.java", "S", 8), FixPlan("K", "", "S", 8), OutOfRangePlan }

\* The batches CodeHealerAgent.process is called with: its CodeContext is the
\* one reader of line_number, so only these include the out-of-range plan.
AgentPlanLists == SeqsUpTo(AgentPlanKinds, MaxPlans) \cup {ExampleBatch}

\* dict.get(k, default)
Get(d, k, default) == IF k \in DOMAIN d THEN d[k] ELSE default

\* A Python dict with no keys.
EmptyDict == [k \in {} |-> None]

\* d updated with the key k (d[k] = v).
DictSet(d, k, v) == [x \in (DOMAIN d) \cup {k} |-> IF x = k THEN v ELSE d[x]]

\* --------------------------------------------------------- the repository
\* Branch names: the trunk (GitClient.default_branch), a branch the checkout
\* may be on when the run starts, the workflow's run branch
\* (sonar-ai-fixes-<timestamp>) and the agent's per-group branches
\* (_generate_branch_name for one fix, fix/sonar-batch-<timestamp> for several).
DefaultBranch == "main"
RunBranch == "sonar-ai-fixes"
BatchBranch == "fix/sonar-batch"
SingleBranch(p) == IF p.file_path = "A.java" THEN "fix/sonar-K-A" ELSE "fix/sonar-K-B"
BranchNames == {DefaultBranch, "other", RunBranch, BatchBranch, "fix/sonar-K-A", "fix/sonar-K-B"}

BaseTree == [f \in Files |-> "orig"]

\* The tree git compares the working tree with: the last commit made on the
\* checked-out branch, or the base tree every branch starts from.
HeadTree(r) ==
    IF r.commits[r.current] = <<>> THEN BaseTree
    ELSE r.commits[r.current][Len(r.commits[r.current])]

\* git status --porcelain prints nothing.
TreeClean(r) == r.disk = HeadTree(r)

InitRepo(b) ==
    [ disk    |-> BaseTree,
      current |-> b,
      local   |-> {DefaultBranch, "other"},
      commits |-> [x \in BranchNames |-> <<>>],
      pushed  |-> [x \in BranchNames |-> FALSE],
      remote  |-> [x \in BranchNames |-> <<>>],
      writes  |-> <<>>,
      ops     |-> <<>> ]

\* ops records each call that reaches git, GitLab or the build tool: what it
\* was, whether it succeeded, and the branch (or the build's outcome) it had.
\* kind tells how it ended: "ok", "exit_nonzero", "timeout", "status_failed" (the
\* git status of commit_changes failed), or "failed" where
\* the caller cannot tell which.
LogCmd(r, op, kind, a) ==
    [r EXCEPT !.ops = Append(@, [op |-> op, ok |-> kind = "ok", arg |-> a, kind |-> kind])]

LogOp(r, op, ok, a) == LogCmd(r, op, IF ok THEN "ok" ELSE "failed", a)

\* A write of a whole file (open(path, 'w'); f.write(content)).
WriteFile(r, f, c) ==
    [r EXCEPT !.disk[f] = c,
              !.writes = Append(@, [file |-> f, branch |-> r.current, content |-> c])]

\* git checkout <b>
GitCheckout(r, b, ok) ==
    IF ok /\ b \in r.local THEN [r EXCEPT !.current = b] ELSE r

\* git checkout -b <b>: fails when the branch exists.
GitCheckoutNew(r, b, ok) ==
    IF ok /\ b \notin r.local
    THEN [r EXCEPT !.local = @ \cup {b}, !.current = b, !.commits[b] = r.commits[r.current]]
    ELSE r

\* How a git subprocess ends: exit code 0, another exit code, or the timeout.
CmdOutcomes == {"ok", "exit_nonzero", "timeout"}

\* GitClient._run_git_command: the dict it returns.
RunGitCommand(oc) ==
    [ success     |-> oc = "ok",
      return_code |-> CASE oc = "ok" -> 0 [] oc = "exit_nonzero" -> 1 [] OTHER -> -1,
      error       |-> IF oc = "timeout" THEN "Command timed out" ELSE "" ]

\* The three git commands of create_branch.
GitOutcomes == [checkout : CmdOutcomes, pull : CmdOutcomes, create : CmdOutcomes]

\* GitClient.create_branch: the results of checkout and pull of the default
\* branch are not looked at, nor is the state of the working tree; only
\* checkout -b decides.  The log keeps that the call was made on a tree with
\* uncommitted changes, and that the default branch could not be checked out
\* or pulled.
create_branch(r, name, oc) ==
    LET checkout == RunGitCommand(oc.checkout)
        pull == RunGitCommand(oc.pull)
        r0 == IF TreeClean(r) THEN r ELSE LogCmd(r, "dirty_tree", "failed", r.current)
        r1 == GitCheckout(r0, DefaultBranch, checkout.success)
        r2 == IF checkout.success /\ pull.success THEN r1
              ELSE LogCmd(r1, "sync_base",
                          IF "timeout" \in {oc.checkout, oc.pull} THEN "timeout" ELSE "exit_nonzero",
                          DefaultBranch)
        exists == name \in r2.local
        result == RunGitCommand(IF oc.create = "ok" /\ exists THEN "exit_nonzero" ELSE oc.create)
        r3 == GitCheckoutNew(r2, name, result.success)
    IN  [ok |-> result.success,
         repo |-> LogCmd(r3, "create_branch",
                         IF oc.create = "ok" /\ exists THEN "exit_nonzero" ELSE oc.create, name)]

CommitOutcomes == [status : BOOLEAN, add : BOOLEAN, commit : BOOLEAN]

\* A commit_changes that reports success although "git commit" failed.
commit_changes_unchecked(r, oc) ==
    IF ~oc.status THEN [ok |-> FALSE, repo |-> LogCmd(r, "commit", "status_failed", r.current)]
    ELSE IF TreeClean(r) THEN [ok |-> TRUE, repo |-> LogOp(r, "commit_noop", TRUE, r.current)]
    ELSE IF ~oc.add THEN [ok |-> FALSE, repo |-> LogOp(r, "commit", FALSE, r.current)]
    ELSE IF oc.commit
         THEN [ok |-> TRUE,
               repo |-> LogOp([r EXCEPT !.commits[r.current] = Append(@, r.disk)],
                              "commit", TRUE, r.current)]
         ELSE [ok |-> TRUE, repo |-> LogOp(r, "commit", TRUE, r.current)]

\* A commit_changes that commits even when git status reports no change.
commit_changes_allow_empty(r, oc) ==
    IF ~oc.status THEN [ok |-> FALSE, repo |-> LogCmd(r, "commit", "status_failed", r.current)]
    ELSE IF ~oc.add THEN [ok |-> FALSE, repo |-> LogOp(r, "commit", FALSE, r.current)]
    ELSE IF oc.commit
         THEN [ok |-> TRUE,
               repo |-> LogOp([r EXCEPT !.commits[r.current] = Append(@, r.disk)],
                              "commit", TRUE, r.current)]
         ELSE [ok |-> FALSE, repo |-> LogOp(r, "commit", FALSE, r.current)]

\* GitClient.commit_changes
commit_changes(r, oc) ==
    IF ~oc.status THEN [ok |-> FALSE, repo |-> LogCmd(r, "commit", "status_failed", r.current)]
    ELSE IF TreeClean(r) THEN [ok |-> TRUE, repo |-> LogOp(r, "commit_noop", TRUE, r.current)]
    ELSE IF ~oc.add THEN [ok |-> FALSE, repo |-> LogOp(r, "commit", FALSE, r.current)]
    ELSE IF oc.commit
         THEN [ok |-> TRUE,
               repo |-> LogOp([r EXCEPT !.commits[r.current] = Append(@, r.disk)],
                              "commit", TRUE, r.current)]
         ELSE [ok |-> FALSE, repo |-> LogOp(r, "commit", FALSE, r.current)]

\* GitClient.push_branch: git push -u origin <branch>
push_branch(r, b, ok) ==
    IF ok /\ b \in r.local
    THEN [ok |-> TRUE,
          repo |-> LogOp([r EXCEPT !.pushed[b] = TRUE, !.remote[b] = r.commits[b]],
                         "push", TRUE, b)]
    ELSE [ok |-> FALSE, repo |-> LogOp(r, "push", FALSE, b)]

\* GitClient.create_merge_request: the URL, or None when the GitLab
\* configuration is incomplete, the response is not 201, or the request raises.
MrOutcomes == {"url", "none", "raise"}

create_merge_request(r, src, oc) ==
    [url  |-> IF oc = "url" THEN "http://mr" ELSE None,
     repo |-> LogOp(r, "merge_request", oc = "url", src)]

\* The session dict before create_atomic_fixes_session has made one.
NoSession == [status |-> "none", branch_name |-> None]

\* What validate_atomic_fixes_preconditions learns from git: whether git
\* status works (is_repository) and whether git diff works (get_changed_files
\* gives [] when it does not).
ProbeOutcomes == [status : BOOLEAN, diff : BOOLEAN]

\* validate_atomic_fixes_preconditions: validation['valid']
validate_atomic_fixes_preconditions(r, probe) ==
    probe.status /\ ~(probe.diff /\ ~TreeClean(r))

\* GitClient.create_atomic_fixes_session: the session it returns and the
\* repository it leaves.
create_atomic_fixes_session(r, probe, oc) ==
    IF ~validate_atomic_fixes_preconditions(r, probe)
    THEN [session |-> [status |-> "validation_failed", branch_name |-> RunBranch], repo |-> r]
    ELSE LET c == create_branch(r, RunBranch, oc)
         IN  [session |-> [status      |-> IF c.ok THEN "ready" ELSE "branch_creation_failed",
                           branch_name |-> RunBranch],
              repo    |-> c.repo]

\* GitClient.finalize_atomic_fixes_session(session, applied_fixes): it reads
\* session['branch_name'] and nothing else of the session.
finalize_atomic_fixes_session(s, r, coc, pok, mroc) ==
    LET c == commit_changes(r, coc)
        p == push_branch(c.repo, s.branch_name, pok)
        m == create_merge_request(p.repo, s.branch_name, mroc)
    IN  IF ~c.ok THEN [session |-> [s EXCEPT !.status = "commit_failed"], repo |-> c.repo]
        ELSE IF ~p.ok THEN [session |-> [s EXCEPT !.status = "push_failed"], repo |-> p.repo]
        ELSE [session |-> [s EXCEPT !.status = "completed"], repo |-> m.repo]

\* ------------------------------------------------------------------ Config
\* A Python float, in tenths: a number or NaN.  Every comparison with NaN is
\* false.
Float(v) == [nan |-> FALSE, v |-> v]

NaN == [nan |-> TRUE, v |-> 0]

FloatLess(a, b) == ~a.nan /\ ~b.nan /\ a.v < b.v

\* What Config() finds in the environment: whether the four required variables
\* are set, whether a numeric variable holds a string int() or float() rejects,
\* and the values the numeric variables parse to.
Environments ==
    [ required                         : BOOLEAN,
      malformed                        : BOOLEAN,
      metadata_max_depth               : {0, 1, 10, 11},
      metadata_max_length              : {99, 100, 10000, 10001},
      slow_operation_threshold_ms      : {99, 100, 5000},
      very_slow_operation_threshold_ms : {100, 5000, 5001},
      low_throughput_threshold         : {Float(0 - 1), Float(10)},
      high_error_rate_threshold        : {Float(0 - 1), Float(0), Float(10), Float(11), NaN} ]

\* _validate_logging_config: whether it raises ValueError.
ValidateLoggingConfigRaises(c) ==
    \/ c.metadata_max_depth < 1 \/ c.metadata_max_depth > 10
    \/ c.metadata_max_length < 100 \/ c.metadata_max_length > 10000
    \/ c.slow_operation_threshold_ms < 100
    \/ c.very_slow_operation_threshold_ms <= c.slow_operation_threshold_ms
    \/ FloatLess(c.low_throughput_threshold, Float(0))
    \/ FloatLess(c.high_error_rate_threshold, Float(0))
    \/ FloatLess(Float(10), c.high_error_rate_threshold)

\* Config.__init__: int() and float() raise ValueError on a malformed value,
\* _validate_config on a missing required variable, then the logging checks.
ConfigInit(e) ==
    IF e.malformed \/ ~e.required \/ ValidateLoggingConfigRaises(e)
    THEN [pc |-> "raised", env |-> e]
    ELSE [pc |-> "constructed", env |-> e,
          object |-> [k \in DOMAIN e \ {"required", "malformed"} |-> e[k]]]

\* ---------------------------------------------------------- FixPlanStorage
\* The fields of the FixPlan dataclass (models.py): the attributes an instance
\* has and the keyword arguments its constructor takes, none with a default.
FixPlanFields ==
    {"issue_key", "issue_description", "file_path", "line_number", "problem_analysis",
     "proposed_solution", "code_context", "potential_side_effects", "confidence_score",
     "estimated_effort"}

\* The keys of the dictionary _fix_plan_to_dict builds, which are also the
\* keyword arguments _dict_to_fix_plan passes to FixPlan.
StorageKeys ==
    {"issue_key", "file_path", "line_number", "issue_description", "problem_analysis",
     "proposed_solution", "confidence_score", "estimated_effort", "potential_side_effects",
     "fix_type", "severity", "created_at"}

\* The complete FixPlan objects handed to the storage.
StoragePlans ==
    { p @@ [ issue_description      |-> "d",
             problem_analysis       |-> "a",
             code_context           |-> cc,
             potential_side_effects |-> se,
             estimated_effort       |-> ef ] :
        p \in PlanKinds \cup {OutOfRangePlan}, cc \in {"", "ctx"},
        se \in {<<>>, <<"e">>}, ef \in {"LOW", "HIGH"} }

\* The entries a project file may hold: for each plan the dictionary with the
\* storage keys and the metadata save_fix_plan adds, created_at being null, an
\* ISO timestamp or a string that is none.
StoredDicts ==
    { [k \in StorageKeys \cup {"project_key", "stored_at"} |->
          CASE k \in DOMAIN p \cap StorageKeys -> p[k]
            [] k = "fix_type" -> "replace"
            [] k = "severity" -> "MINOR"
            [] k = "created_at" -> ca
            [] OTHER -> "meta"] :
        p \in StoragePlans, ca \in {None, "iso", "bad"} }

\* A project file: whether it exists, and the JSON array it holds.
NoFile == [exists |-> FALSE, entries |-> <<>>]

File(entries) == [exists |-> TRUE, entries |-> entries]

StoredFiles == {NoFile, File(<<>>)} \cup { File(<<d>>) : d \in StoredDicts }

\* _fix_plan_to_dict: reading an attribute the object does not have raises
\* AttributeError.
FixPlanToDict(p) ==
    IF ~(StorageKeys \subseteq DOMAIN p)
    THEN [raised |-> "AttributeError"]
    ELSE [raised |-> None,
          dict   |-> [k \in StorageKeys |->
                        IF k = "created_at"
                        THEN (IF p[k] = None THEN None ELSE "iso")
                        ELSE p[k]]]

\* FixPlan(**kw): the generated __init__ raises TypeError on an unexpected or
\* a missing keyword, then __post_init__ checks confidence and effort.
FixPlanInit(kw) ==
    IF DOMAIN kw # FixPlanFields THEN [raised |-> "TypeError"]
    ELSE IF ~(0 <= kw.confidence_score /\ kw.confidence_score <= 10)
    THEN [raised |-> "ValueError"]
    ELSE IF kw.estimated_effort \notin {"LOW", "MEDIUM", "HIGH"}
    THEN [raised |-> "ValueError"]
    ELSE [raised |-> None, plan |-> kw]

\* _dict_to_fix_plan
DictToFixPlan(d) ==
    IF ~(StorageKeys \ {"potential_side_effects", "fix_type", "severity", "created_at"}
            \subseteq DOMAIN d)
    THEN [raised |-> "KeyError"]
    ELSE FixPlanInit(
            [k \in StorageKeys |->
                CASE k = "potential_side_effects" -> Get(d, k, <<>>)
                  [] k = "fix_type" -> Get(d, k, "replace")
                  [] k = "severity" -> Get(d, k, "MINOR")
                  [] k = "created_at" ->
                       (IF Get(d, k, None) = None THEN None
                        ELSE IF d[k] = "iso" THEN "datetime" ELSE "now")
                  [] OTHER -> d[k]])

\* get_fix_plans_by_project: [] when the file does not exist or anything raises.
GetFixPlansByProject(file) ==
    IF ~file.exists THEN <<>>
    ELSE IF \E i \in DOMAIN file.entries : DictToFixPlan(file.entries[i]).raised # None THEN <<>>
    ELSE [i \in DOMAIN file.entries |-> DictToFixPlan(file.entries[i]).plan]

\* save_fix_plan: whether it returns True, and the project file it leaves.
SaveFixPlanResult(p, file) ==
    LET d == FixPlanToDict(p)
    IN  IF d.raised # None THEN [ok |-> FALSE, file |-> file]
        ELSE [ok   |-> TRUE,
              file |-> File(Append(file.entries,
                                   d.dict @@ [project_key |-> "meta", stored_at |-> "meta"]))]

\* ------------------------------------------------- CodeHealerWorkflow nodes
\* CodeHealerWorkflow.run: the initial CodeHealerWorkflowState.
InitialState(plans) ==
    [ fix_plans       |-> plans,
      branch_name     |-> None,
      applied_fixes   |-> <<>>,
      failed_fixes    |-> <<>>,
      build_status    |-> None,
      build_output    |-> None,
      workflow_status |-> "initialized",
      error_message   |-> None,
      total_fixes     |-> Len(plans),
      results         |-> EmptyDict ]

\* state["error_message"] = msg; state["workflow_status"] = "error"
Err(s, msg) == [s EXCEPT !.error_message = msg, !.workflow_status = "error"]

\* _initialize_node
InitializeNode(s) ==
    [s EXCEPT !.workflow_status = "running",
              !.error_message = None,
              !.applied_fixes = <<>>,
              !.failed_fixes = <<>>,
              !.total_fixes = Len(s.fix_plans),
              !.branch_name = None,
              !.results = EmptyDict]

\* _is_valid_fix_plan
IsValidFixPlan(p) ==
    /\ p.issue_key # ""
    /\ p.file_path # ""
    /\ p.proposed_solution # ""
    /\ p.confidence_score > ValidatorThreshold

\* A _validate_fix_plans_node that lets the invalid plans through when at
\* least one plan is valid.
ValidateFixPlansNode_keeps_invalid(s) ==
    IF s.fix_plans = <<>>
    THEN Err(s, "No fix plans provided for Code Healer")
    ELSE IF SelectSeq(s.fix_plans, IsValidFixPlan) = <<>>
         THEN Err(s, "No valid fix plans found")
         ELSE s

\* _validate_fix_plans_node
ValidateFixPlansNode(s) ==
    IF s.fix_plans = <<>>
    THEN Err(s, "No fix plans provided for Code Healer")
    ELSE LET valid_plans == SelectSeq(s.fix_plans, IsValidFixPlan)
         IN  IF valid_plans = <<>>
             THEN Err(s, "No valid fix plans found")
             ELSE [s EXCEPT !.fix_plans = valid_plans, !.total_fixes = Len(valid_plans)]

CallOutcomes == {"return", "raise"}

\* _create_branch_node
CreateBranchNode(s, r, call, oc) ==
    IF call = "raise"
    THEN [state |-> Err(s, "Branch creation failed"),
          repo  |-> LogOp(r, "create_branch", FALSE, RunBranch)]
    ELSE LET c == create_branch(r, RunBranch, oc)
         IN  IF ~c.ok
             THEN [state |-> Err(s, "Failed to create branch"), repo |-> c.repo]
             ELSE [state |-> [s EXCEPT !.branch_name = RunBranch], repo |-> c.repo]

\* agent.apply_fix(fix_plan): the Fix Applier.  It returns {"success", "error"}
\* or raises; on success the target file has been rewritten once, with content
\* that differs from what it held.
ApplyOutcomes == {"raise", "fail"} \cup Contents

apply_fix(p, oc, r) ==
    IF oc = "raise"
    THEN [raised |-> TRUE, success |-> FALSE, error |-> "exception", repo |-> r]
    ELSE IF oc = "fail" \/ p.file_path \notin Files \/ oc = r.disk[p.file_path]
    THEN [raised |-> FALSE, success |-> FALSE, error |-> "not applied", repo |-> r]
    ELSE [raised |-> FALSE, success |-> TRUE, error |-> None,
          repo |-> WriteFile(r, p.file_path, oc)]

\* A loop that gives up at the first plan that fails or raises.
RECURSIVE ApplyLoop_stop_on_failure(_, _, _, _)
ApplyLoop_stop_on_failure(plans, ocs, i, acc) ==
    IF i > Len(plans) THEN acc
    ELSE LET res == apply_fix(plans[i], ocs[i], acc.repo)
             called == [acc EXCEPT !.calls = Append(@, plans[i]), !.repo = res.repo]
         IN  IF ~res.raised /\ res.success
             THEN ApplyLoop_stop_on_failure(plans, ocs, i + 1,
                    [called EXCEPT !.applied =
                        Append(@, [fix_plan |-> plans[i], status |-> "applied"])])
             ELSE [called EXCEPT !.failed =
                        Append(@, [fix_plan |-> plans[i], error |-> res.error,
                                   status |-> "failed"])]

\* The loop of _apply_fixes_node over fix_plans[i..]; acc holds applied_fixes,
\* failed_fixes, the repository and the plans handed to agent.apply_fix.
RECURSIVE ApplyLoop(_, _, _, _)
ApplyLoop(plans, ocs, i, acc) ==
    IF i > Len(plans) THEN acc
    ELSE LET res == apply_fix(plans[i], ocs[i], acc.repo)
             called == [acc EXCEPT !.calls = Append(@, plans[i]), !.repo = res.repo]
         IN  IF ~res.raised /\ res.success
             THEN ApplyLoop(plans, ocs, i + 1,
                    [called EXCEPT !.applied =
                        Append(@, [fix_plan |-> plans[i], status |-> "applied"])])
             ELSE ApplyLoop(plans, ocs, i + 1,
                    [called EXCEPT !.failed =
                        Append(@, [fix_plan |-> plans[i], error |-> res.error,
                                   status |-> "failed"])])

\* An _apply_fixes_node that does not mind an empty applied_fixes.
ApplyFixesNode_empty_ok(s, r, ocs) ==
    LET done == ApplyLoop(s.fix_plans, ocs, 1,
                    [applied |-> <<>>, failed |-> <<>>, repo |-> r, calls |-> <<>>])
    IN  [state |-> [s EXCEPT !.applied_fixes = done.applied, !.failed_fixes = done.failed],
         repo  |-> done.repo,
         calls |-> done.calls]

\* _apply_fixes_node
ApplyFixesNode(s, r, ocs) ==
    LET done == ApplyLoop(s.fix_plans, ocs, 1,
                    [applied |-> <<>>, failed |-> <<>>, repo |-> r, calls |-> <<>>])
        s1 == [s EXCEPT !.applied_fixes = done.applied, !.failed_fixes = done.failed]
    IN  [state |-> IF done.applied = <<>>
                   THEN Err(s1, "No fixes were applied successfully")
                   ELSE s1,
         repo  |-> done.repo,
         calls |-> done.calls]

\* agent.validate_changes(): the batch re-scan of the changed files.
ValidateOutcomes == {"valid", "invalid", "raise"}

\* _validate_changes_node
ValidateChangesNode(s, oc) ==
    CASE oc = "invalid" -> Err(s, "Validation failed")
      [] oc = "raise"   -> Err(s, "Validation error")
      [] OTHER          -> s

\* What the build step meets: no Maven/Gradle/npm marker file (python or
\* unknown project), the build tool not on the path, the build's exit code, the
\* 300 s timeout, or any other exception.
BuildOutcomes == {"no_build_file", "tool_missing", "exit_zero", "exit_nonzero", "timeout", "exception"}

\* The build command ran (subprocess.run(build_command, timeout=300)).
BuildRan(enabled, oc) == enabled /\ oc \in {"exit_zero", "exit_nonzero", "timeout"}

\* A _build_validation_node whose last except branch records no build_status.
BuildValidationNode_exception_unrecorded(s, r, enabled, oc) ==
    LET r1 == IF BuildRan(enabled, oc)
              THEN LogCmd(r, "build", IF oc = "exit_zero" THEN "ok" ELSE oc, oc)
              ELSE r
        s1 == IF ~enabled
              THEN [s EXCEPT !.build_status = "skipped",
                             !.build_output = "build validation disabled by configuration"]
              ELSE CASE oc = "no_build_file" ->
                          [s EXCEPT !.build_status = "skipped",
                                    !.build_output = "build validation skipped"]
                     [] oc = "tool_missing" ->
                          [s EXCEPT !.build_status = "skipped",
                                    !.build_output = "not found in PATH. Skipping build validation."]
                     [] oc = "exit_zero" ->
                          [s EXCEPT !.build_status = "success", !.build_output = "stdout"]
                     [] oc = "exit_nonzero" ->
                          [Err(s, "build validation failed")
                              EXCEPT !.build_status = "failed", !.build_output = "stdout"]
                     [] oc = "timeout" ->
                          [Err(s, "build timed out after 5 minutes")
                              EXCEPT !.build_status = "timeout"]
                     [] OTHER ->
                          Err(s, "Build validation error")
    IN  [state |-> s1, repo |-> r1]

\* A _build_validation_node that reports a missing build tool as a failed build.
BuildValidationNode_tool_missing_fails(s, r, enabled, oc) ==
    LET r1 == IF BuildRan(enabled, oc)
              THEN LogCmd(r, "build", IF oc = "exit_zero" THEN "ok" ELSE oc, oc)
              ELSE r
        s1 == IF ~enabled
              THEN [s EXCEPT !.build_status = "skipped",
                             !.build_output = "build validation disabled by configuration"]
              ELSE CASE oc = "no_build_file" ->
                          [s EXCEPT !.build_status = "skipped",
                                    !.build_output = "build validation skipped"]
                     [] oc = "tool_missing" ->
                          [Err(s, "build tool not found")
                              EXCEPT !.build_status = "failed",
                                     !.build_output = "not found in PATH. Skipping build validation."]
                     [] oc = "exit_zero" ->
                          [s EXCEPT !.build_status = "success", !.build_output = "stdout"]
                     [] oc = "exit_nonzero" ->
                          [Err(s, "build validation failed")
                              EXCEPT !.build_status = "failed", !.build_output = "stdout"]
                     [] oc = "timeout" ->
                          [Err(s, "build timed out after 5 minutes")
                              EXCEPT !.build_status = "timeout"]
                     [] OTHER ->
                          [Err(s, "Build validation error") EXCEPT !.build_status = "error"]
    IN  [state |-> s1, repo |-> r1]

\* A _build_validation_node for which a build that times out is a warning.
BuildValidationNode_timeout_is_warning(s, r, enabled, oc) ==
    LET r1 == IF BuildRan(enabled, oc)
              THEN LogCmd(r, "build", IF oc = "exit_zero" THEN "ok" ELSE oc, oc)
              ELSE r
        s1 == IF ~enabled
              THEN [s EXCEPT !.build_status = "skipped",
                             !.build_output = "build validation disabled by configuration"]
              ELSE CASE oc = "no_build_file" ->
                          [s EXCEPT !.build_status = "skipped",
                                    !.build_output = "build validation skipped"]
                     [] oc = "tool_missing" ->
                          [s EXCEPT !.build_status = "skipped",
                                    !.build_output = "not found in PATH. Skipping build validation."]
                     [] oc = "exit_zero" ->
                          [s EXCEPT !.build_status = "success", !.build_output = "stdout"]
                     [] oc = "exit_nonzero" ->
                          [Err(s, "build validation failed")
                              EXCEPT !.build_status = "failed", !.build_output = "stdout"]
                     [] oc = "timeout" ->
                          [s EXCEPT !.build_status = "timeout"]
                     [] OTHER ->
                          [Err(s, "Build validation error") EXCEPT !.build_status = "error"]
    IN  [state |-> s1, repo |-> r1]

\* _build_validation_node
BuildValidationNode(s, r, enabled, oc) ==
    LET r1 == IF BuildRan(enabled, oc)
              THEN LogCmd(r, "build", IF oc = "exit_zero" THEN "ok" ELSE oc, oc)
              ELSE r
        s1 == IF ~enabled
              THEN [s EXCEPT !.build_status = "skipped",
                             !.build_output = "build validation disabled by configuration"]
              ELSE CASE oc = "no_build_file" ->
                          [s EXCEPT !.build_status = "skipped",
                                    !.build_output = "build validation skipped"]
                     [] oc = "tool_missing" ->
                          [s EXCEPT !.build_status = "skipped",
                                    !.build_output = "not found in PATH. Skipping build validation."]
                     [] oc = "exit_zero" ->
                          [s EXCEPT !.build_status = "success", !.build_output = "stdout"]
                     [] oc = "exit_nonzero" ->
                          [Err(s, "build validation failed")
                              EXCEPT !.build_status = "failed", !.build_output = "stdout"]
                     [] oc = "timeout" ->
                          [Err(s, "build timed out after 5 minutes")
                              EXCEPT !.build_status = "timeout"]
                     [] OTHER ->
                          [Err(s, "Build validation error") EXCEPT !.build_status = "error"]
    IN  [state |-> s1, repo |-> r1]

\* _commit_and_push_node; exc names the client call that raises, if any.
CommitPushExc == {"none", "commit", "push"}

CommitAndPushNode(s, r, coc, pok, exc) ==
    IF exc = "commit"
    THEN [state |-> Err(s, "Commit/push failed"), repo |-> LogOp(r, "commit", FALSE, r.current)]
    ELSE LET c == commit_changes(r, coc)
         IN  IF ~c.ok
             THEN [state |-> Err(s, "Failed to commit changes"), repo |-> c.repo]
             ELSE IF exc = "push"
             THEN [state |-> Err(s, "Commit/push failed"),
                   repo  |-> LogOp(c.repo, "push", FALSE, s.branch_name)]
             ELSE LET p == push_branch(c.repo, s.branch_name, pok)
                  IN  IF ~p.ok
                      THEN [state |-> Err(s, "Failed to push branch"), repo |-> p.repo]
                      ELSE [state |-> s, repo |-> p.repo]

\* A _create_merge_request_node that treats a missing URL as a workflow error.
CreateMergeRequestNode_fatal(s, r, oc) ==
    LET m == create_merge_request(r, s.branch_name, oc)
    IN  [state |-> IF m.url # None
                   THEN [s EXCEPT !.results = DictSet(@, "merge_request_url", m.url)]
                   ELSE Err(s, "Merge request creation failed"),
         repo  |-> m.repo]

\* _create_merge_request_node
CreateMergeRequestNode(s, r, oc) ==
    LET m == create_merge_request(r, s.branch_name, oc)
    IN  [state |-> IF oc = "raise"
                   THEN [s EXCEPT !.results = DictSet(@, "merge_request_error", "exception")]
                   ELSE IF m.url # None
                   THEN [s EXCEPT !.results = DictSet(@, "merge_request_url", m.url)]
                   ELSE s,
         repo  |-> m.repo]

IssueKeys(fixes) == [i \in 1..Len(fixes) |-> fixes[i].fix_plan.issue_key]

\* _finalize_node
FinalizeNode(s) ==
    LET results == [ status        |-> "success",
                     fixes_applied |-> Len(s.applied_fixes),
                     fixes_failed  |-> Len(s.failed_fixes),
                     total_fixes   |-> Len(s.applied_fixes) + Len(s.failed_fixes),
                     branch_name   |-> s.branch_name,
                     applied_fixes |-> IssueKeys(s.applied_fixes),
                     failed_fixes  |-> IssueKeys(s.failed_fixes) ]
    IN  [s EXCEPT !.results = IF "merge_request_url" \in DOMAIN s.results
                              THEN DictSet(results, "merge_request_url",
                                           s.results["merge_request_url"])
                              ELSE results,
                  !.workflow_status = "completed"]

\* A _handle_error_node that reports no fix at all.
HandleErrorNode_zero_counts(s) ==
    [s EXCEPT !.results = [ status        |-> "error",
                            message       |-> s.error_message,
                            fixes_applied |-> 0,
                            fixes_failed  |-> 0 ]]

\* _handle_error_node
HandleErrorNode(s) ==
    [s EXCEPT !.results = [ status        |-> "error",
                            message       |-> s.error_message,
                            fixes_applied |-> Len(s.applied_fixes),
                            fixes_failed  |-> Len(s.failed_fixes) ]]

\* _check_for_errors
CheckForErrors(s, enabled) ==
    IF s.workflow_status = "error" THEN "error"
    ELSE IF enabled /\ s.build_status = "failed" THEN "error"
    ELSE "continue"

\* The graph as visualize_code_healer_workflow.py draws it: the build step
\* always proceeds to commit_and_push.
ConditionalEdges_build_always_commits ==
    [ validate_fix_plans |-> [continue |-> "create_branch",        error |-> "handle_error"],
      create_branch      |-> [continue |-> "apply_fixes",          error |-> "handle_error"],
      apply_fixes        |-> [continue |-> "validate_changes",     error |-> "handle_error"],
      validate_changes   |-> [continue |-> "maven_clean_build",    error |-> "handle_error"],
      maven_clean_build  |-> [continue |-> "commit_and_push",      error |-> "commit_and_push"],
      commit_and_push    |-> [continue |-> "create_merge_request", error |-> "handle_error"] ]

\* An except branch of run whose result carries no counts.
RunExceptResult_no_counts(s) ==
    [ status  |-> "error",
      message |-> "Workflow execution failed" ]

\* run: the result of its except branch.
RunExceptResult(s) ==
    [ status        |-> "error",
      message       |-> "Workflow execution failed",
      fixes_applied |-> 0,
      fixes_failed  |-> Len(s.fix_plans) ]

\* What run returns from position at (END of the graph, or invoke raised).
RunResult(at, s) == IF at = "raised" THEN RunExceptResult(s) ELSE s.results

\* run_from_storage: the result when the storage holds no plan for the project.
StorageEmptyResult ==
    [ status        |-> "warning",
      message       |-> "No fix plans found for project",
      fixes_applied |-> 0,
      fixes_failed  |-> 0 ]

\* run_from_storage: the result of its except branch.
StorageErrorResult ==
    [ status        |-> "error",
      message       |-> "Failed to load fix plans",
      fixes_applied |-> 0,
      fixes_failed  |-> 0 ]

\* _build_workflow: the nodes in the order the "continue" edges chain them.
NodeOrder ==
    << "initialize", "validate_fix_plans", "create_branch", "apply_fixes", "validate_changes",
       "maven_clean_build", "commit_and_push", "create_merge_request", "finalize" >>

\* A graph that applies the fixes before it creates the branch.
ConditionalEdges_apply_before_branch ==
    [ validate_fix_plans |-> [continue |-> "apply_fixes",          error |-> "handle_error"],
      apply_fixes        |-> [continue |-> "create_branch",        error |-> "handle_error"],
      create_branch      |-> [continue |-> "validate_changes",     error |-> "handle_error"],
      validate_changes   |-> [continue |-> "maven_clean_build",    error |-> "handle_error"],
      maven_clean_build  |-> [continue |-> "commit_and_push",      error |-> "handle_error"],
      commit_and_push    |-> [continue |-> "create_merge_request", error |-> "handle_error"] ]

\* A graph in which an error of commit_and_push does not stop the run.
ConditionalEdges_commit_error_continues ==
    [ validate_fix_plans |-> [continue |-> "create_branch",        error |-> "handle_error"],
      create_branch      |-> [continue |-> "apply_fixes",          error |-> "handle_error"],
      apply_fixes        |-> [continue |-> "validate_changes",     error |-> "handle_error"],
      validate_changes   |-> [continue |-> "maven_clean_build",    error |-> "handle_error"],
      maven_clean_build  |-> [continue |-> "commit_and_push",      error |-> "handle_error"],
      commit_and_push    |-> [continue |-> "create_merge_request", error |-> "create_merge_request"] ]

\* A graph in which a failed validation of the changes goes on to the commit.
ConditionalEdges_validation_not_blocking ==
    [ validate_fix_plans |-> [continue |-> "create_branch",        error |-> "handle_error"],
      create_branch      |-> [continue |-> "apply_fixes",          error |-> "handle_error"],
      apply_fixes        |-> [continue |-> "validate_changes",     error |-> "handle_error"],
      validate_changes   |-> [continue |-> "maven_clean_build",    error |-> "commit_and_push"],
      maven_clean_build  |-> [continue |-> "commit_and_push",      error |-> "handle_error"],
      commit_and_push    |-> [continue |-> "create_merge_request", error |-> "handle_error"] ]

\* A graph in which an error of create_branch does not lead to handle_error.
ConditionalEdges_branch_error_continues ==
    [ validate_fix_plans |-> [continue |-> "create_branch",        error |-> "handle_error"],
      create_branch      |-> [continue |-> "apply_fixes",          error |-> "apply_fixes"],
      apply_fixes        |-> [continue |-> "validate_changes",     error |-> "handle_error"],
      validate_changes   |-> [continue |-> "maven_clean_build",    error |-> "handle_error"],
      maven_clean_build  |-> [continue |-> "commit_and_push",      error |-> "handle_error"],
      commit_and_push    |-> [continue |-> "create_merge_request", error |-> "handle_error"] ]

\* _build_workflow: the conditional edges of the graph.
ConditionalEdges ==
    [ validate_fix_plans |-> [continue |-> "create_branch",        error |-> "handle_error"],
      create_branch      |-> [continue |-> "apply_fixes",          error |-> "handle_error"],
      apply_fixes        |-> [continue |-> "validate_changes",     error |-> "handle_error"],
      validate_changes   |-> [continue |-> "maven_clean_build",    error |-> "handle_error"],
      maven_clean_build  |-> [continue |-> "commit_and_push",      error |-> "handle_error"],
      commit_and_push    |-> [continue |-> "create_merge_request", error |-> "handle_error"] ]

\* A graph whose error edges lead straight to END.
Successor_error_ends(node, s, enabled) ==
    IF CheckForErrors(s, enabled) = "error" THEN "END" ELSE ConditionalEdges[node]["continue"]

\* The node the graph runs after `node` has returned state s.
Successor(node, s, enabled) == ConditionalEdges[node][CheckForErrors(s, enabled)]

\* ------------------------------------------------- CodeHealerAgent.process
\* file_groups of _group_fixes: the file paths in order of first appearance.
RECURSIVE FirstPaths(_, _)
FirstPaths(plans, seen) ==
    IF plans = <<>> THEN <<>>
    ELSE IF Head(plans).file_path \in seen
         THEN FirstPaths(Tail(plans), seen)
         ELSE <<Head(plans).file_path>>
                \o FirstPaths(Tail(plans), seen \cup {Head(plans).file_path})

\* file_fixes[i:i + n] for i in range(0, len(file_fixes), n)
RECURSIVE Chunks(_, _)
Chunks(fixes, n) ==
    IF Len(fixes) <= n THEN <<fixes>>
    ELSE <<SubSeq(fixes, 1, n)>> \o Chunks(SubSeq(fixes, n + 1, Len(fixes)), n)

RECURSIVE GroupsOf(_, _)
GroupsOf(plans, paths) ==
    IF paths = <<>> THEN <<>>
    ELSE Chunks(SelectSeq(plans, LAMBDA p : p.file_path = Head(paths)), MaxFixesPerBranch)
           \o GroupsOf(plans, Tail(paths))

\* _group_fixes (batch_similar_fixes is True)
GroupFixes(plans) == GroupsOf(plans, FirstPaths(plans, {}))

\* A split that lets a group grow one beyond max_fixes_per_branch.
RECURSIVE SplitGroups_oversize(_, _, _)
SplitGroups_oversize(plans, paths, n) ==
    IF paths = <<>> THEN <<>>
    ELSE Chunks(SelectSeq(plans, LAMBDA p : p.file_path = Head(paths)), n + 1)
           \o SplitGroups_oversize(plans, Tail(paths), n)

\* "Split large groups" of _group_fixes, for a max_fixes_per_branch of n.
RECURSIVE SplitGroups(_, _, _)
SplitGroups(plans, paths, n) ==
    IF paths = <<>> THEN <<>>
    ELSE Chunks(SelectSeq(plans, LAMBDA p : p.file_path = Head(paths)), n)
           \o SplitGroups(plans, Tail(paths), n)

\* _group_fixes(fix_plans) of an agent whose max_fixes_per_branch is n and
\* whose batch_similar_fixes is batch.
group_fixes(plans, n, batch) ==
    IF ~batch THEN [i \in DOMAIN plans |-> <<plans[i]>>]
    ELSE SplitGroups(plans, FirstPaths(plans, {}), n)

\* The batches _group_fixes is tried on: plans for two files, two issues each.
BatchPlanKinds == { FixPlan(k, f, "S", 8) : k \in {"K", "L"}, f \in Files }

Batches == SeqsUpTo(BatchPlanKinds, MaxBatch)

\* The values of max_fixes_per_branch it is tried with.
BranchLimits == {1, 2, MaxFixesPerBranch}

\* ------------------------------------------- two runs, each on its own clone
RunIds == {1, 2}

\* The branches of the two runs: two different names.
BranchOf(i) == IF i = 1 THEN RunBranch ELSE BatchBranch

\* The file content the LLM answers with in run i.
FixedCode(i) == IF i = 1 THEN "fix1" ELSE "fix2"

NoBackup == "no backup"

\* BackupManager.__init__: backup_dir is Path("backups"), relative to the
\* directory the process was started in and not to target_repo_path.  Runs
\* started in the same directory have the same backup directory.
BackupDir(i, same_cwd) == IF same_cwd THEN 1 ELSE i

\* BackupManager.create_backup: copies the file to
\* <backup_dir>/<basename>.<timestamp>.backup.  backups[d][f] is the backup of
\* basename f in directory d with the latest ctime, the one
\* _restore_from_backup picks; a copy made in the same second has the same name
\* and replaces the earlier one.
create_backup(backups, d, f, content) == [backups EXCEPT ![d][f] = content]

\* _restore_from_backup: copies the latest <basename>.*.backup of the backup
\* directory over the file of this run's clone; False when there is none.
RestoreFromBackup(r, backups, d, f) ==
    IF backups[d][f] = NoBackup THEN r ELSE WriteFile(r, f, backups[d][f])

\* Two runs before they start.
RunsIdle ==
    [ same_cwd             |-> FALSE,
      validate_compilation |-> FALSE,
      repo                 |-> [i \in RunIds |-> InitRepo(DefaultBranch)],
      backups              |-> [d \in RunIds |-> [f \in Files |-> NoBackup]],
      pc                   |-> [i \in RunIds |-> "idle"],
      n                    |-> [i \in RunIds |-> 0],
      file                 |-> [i \in RunIds |-> None],
      applied              |-> [i \in RunIds |-> {}] ]

\* What the LLM answer yields in _generate_code_fix / _extract_fixed_code:
\* generate_response raises, nothing is extracted, the class declaration is
\* missing, or a complete file content.
LlmOutcomes == {"raise", "empty", "no_class"} \cup Contents

\* JavaCodeValidator.validate_syntax as _validate_fix sees it: no finding,
\* linting or security warnings only, a syntax error, or an exception.
ValidationOutcomes == {"clean", "warnings", "syntax_error", "raise"}

FixOutcomes == [llm : LlmOutcomes, write : BOOLEAN, validation : ValidationOutcomes]

NoFix == [some |-> FALSE]

\* CodeContext.target_line_content: the target line, or "" when line_number is
\* not a line of the content.
TargetLineContent(content, n) ==
    IF 0 <= n - 1 /\ n - 1 < LineCount(content) THEN "line" ELSE ""

\* _read_and_analyze_code: the CodeContext of the plan's file, or None when the
\* file does not exist.
ReadAndAnalyzeCode(p, r) ==
    IF p.file_path \notin Files THEN [some |-> FALSE]
    ELSE [ some                |-> TRUE,
           content             |-> r.disk[p.file_path],
           target_line         |-> p.line_number,
           target_line_content |-> TargetLineContent(r.disk[p.file_path], p.line_number) ]

\* CodeFix.is_valid
IsValidCodeFix(cf) == cf.validation_status /\ cf.validation_errors = 0

\* A _process_single_fix that leaves the written file in place when the
\* validation fails.
ProcessSingleFix_no_restore(p, validate_compilation, oc, r) ==
    IF p.confidence_score < MinConfidenceForAutoFix THEN [code_fix |-> NoFix, repo |-> r]
    ELSE IF ~ReadAndAnalyzeCode(p, r).some THEN [code_fix |-> NoFix, repo |-> r]
    ELSE IF oc.llm \notin Contents THEN [code_fix |-> NoFix, repo |-> r]
    ELSE IF ~oc.write THEN [code_fix |-> NoFix, repo |-> r]
    ELSE LET v == IF validate_compilation THEN oc.validation ELSE "clean"
             cf == [ some              |-> TRUE,
                     fix_plan          |-> p,
                     original_code     |-> r.disk[p.file_path],
                     fixed_code        |-> oc.llm,
                     validation_status |-> v \in {"clean", "warnings"},
                     validation_errors |-> IF v = "clean" THEN 0 ELSE 1,
                     branch_name       |-> SingleBranch(p) ]
         IN  [code_fix |-> cf, repo |-> WriteFile(r, p.file_path, oc.llm)]

\* _process_single_fix: the CodeFix it returns (or None) and the repository
\* it leaves.
ProcessSingleFix(p, validate_compilation, oc, r) ==
    IF p.confidence_score < MinConfidenceForAutoFix THEN [code_fix |-> NoFix, repo |-> r]
    ELSE IF ~ReadAndAnalyzeCode(p, r).some THEN [code_fix |-> NoFix, repo |-> r]
    ELSE IF oc.llm \notin Contents THEN [code_fix |-> NoFix, repo |-> r]
    ELSE IF ~oc.write THEN [code_fix |-> NoFix, repo |-> r]
    ELSE LET original == r.disk[p.file_path]
             written == WriteFile(r, p.file_path, oc.llm)
             v == IF validate_compilation THEN oc.validation ELSE "clean"
             is_valid == v \in {"clean", "warnings"}
             cf == [ some              |-> TRUE,
                     fix_plan          |-> p,
                     original_code     |-> original,
                     fixed_code        |-> oc.llm,
                     validation_status |-> is_valid,
                     validation_errors |-> IF v = "clean" THEN 0 ELSE 1,
                     branch_name       |-> SingleBranch(p) ]
         IN  [ code_fix |-> cf,
               repo     |-> IF is_valid THEN written
                            ELSE WriteFile(written, p.file_path, original) ]

\* _create_git_branch_and_commit: the branch name it returns, or that it
\* raised.  git_client.commit_changes(modified_files, commit_message) passes two
\* arguments to GitClient.commit_changes(self, commit_message): the call raises
\* TypeError before any git command runs.
CreateGitBranchAndCommit(fixes, r, oc) ==
    LET name == IF Len(fixes) = 1 THEN fixes[1].branch_name ELSE BatchBranch
        c == create_branch(r, name, oc)
    IN  [raised |-> TRUE, branch_name |-> name, repo |-> c.repo]

\* ---------------------------------------------- CompleteSonarWorkflow nodes
\* CompleteSonarWorkflow.run: the initial CompleteWorkflowState.
CInitialState ==
    [ fix_plans           |-> <<>>,
      bug_hunter_results  |-> EmptyDict,
      code_healer_results |-> EmptyDict,
      workflow_status     |-> "initialized",
      error_message       |-> None,
      results             |-> EmptyDict ]

\* CompleteSonarWorkflow._initialize_node
CInitializeNode(cs) ==
    [cs EXCEPT !.bug_hunter_results = EmptyDict,
               !.fix_plans = <<>>,
               !.code_healer_results = EmptyDict,
               !.workflow_status = "running",
               !.error_message = None,
               !.results = EmptyDict]

\* What BugHunterWorkflow.run hands back (its finalize and handle_error results).
BugHunterSuccess(plans) ==
    [status |-> "success", message |-> "Processed", fix_plans |-> plans, total_plans |-> Len(plans)]

BugHunterError ==
    [status |-> "error", message |-> "failed", fix_plans |-> <<>>, total_plans |-> 0]

\* CompleteSonarWorkflow._run_bug_hunter_node
CRunBugHunterNode(cs, call, res) ==
    IF call = "raise"
    THEN Err([cs EXCEPT !.workflow_status = "bug_hunter"], "Bug Hunter workflow failed")
    ELSE LET cs1 == [cs EXCEPT !.workflow_status = "bug_hunter", !.bug_hunter_results = res]
         IN  IF Get(res, "status", None) = "success"
             THEN [cs1 EXCEPT !.fix_plans = Get(res, "fix_plans", <<>>)]
             ELSE Err(cs1, "Bug Hunter failed")

\* A _validate_fix_plans_node that hands every plan on.
CValidateFixPlansNode_keeps_invalid(cs) ==
    IF cs.fix_plans = <<>>
    THEN [cs EXCEPT !.workflow_status = "no_fix_plans"]
    ELSE cs

\* CompleteSonarWorkflow._validate_fix_plans_node
CValidateFixPlansNode(cs) ==
    IF cs.fix_plans = <<>>
    THEN [cs EXCEPT !.workflow_status = "no_fix_plans"]
    ELSE LET valid_plans == SelectSeq(cs.fix_plans, IsValidFixPlan)
         IN  IF valid_plans = <<>>
             THEN [cs EXCEPT !.workflow_status = "no_valid_fix_plans"]
             ELSE [cs EXCEPT !.fix_plans = valid_plans]

\* CompleteSonarWorkflow._run_code_healer_node, once code_healer_workflow.run
\* has returned res: a result whose status is not success is only logged.
CRunCodeHealerNode(cs, res) ==
    [cs EXCEPT !.code_healer_results = res]

\* CompleteSonarWorkflow._finalize_node
CFinalizeNode(cs) ==
    LET bh == cs.bug_hunter_results
        ch == cs.code_healer_results
        e1 == IF cs.error_message # None THEN <<cs.error_message>> ELSE <<>>
        e2 == IF Get(bh, "status", None) = "error" THEN <<"Bug Hunter">> ELSE <<>>
        e3 == IF Get(ch, "status", None) = "error" THEN <<"Code Healer">> ELSE <<>>
    IN  [cs EXCEPT !.results =
                     [ status              |-> "success",
                       fixes_applied       |-> Get(ch, "fixes_applied", 0),
                       failed_fixes        |-> Get(ch, "fixes_failed", 0),
                       merge_requests      |-> IF Get(ch, "merge_request_url", None) # None
                                               THEN <<ch["merge_request_url"]>> ELSE <<>>,
                       errors              |-> e1 \o e2 \o e3,
                       code_healer_results |-> ch ],
                   !.workflow_status = "completed"]

\* CompleteSonarWorkflow._handle_error_node
CHandleErrorNode(cs) ==
    [cs EXCEPT !.results = [ status              |-> "error",
                             message             |-> cs.error_message,
                             fixes_applied       |-> 0,
                             code_healer_results |-> cs.code_healer_results ]]

\* CompleteSonarWorkflow._check_for_errors
CCheckForErrors(cs) == IF cs.workflow_status = "error" THEN "error" ELSE "continue"

\* A _check_fix_plans_available without the "skip" answer.
CCheckFixPlansAvailable_noskip(cs) ==
    IF cs.workflow_status = "error" THEN "error" ELSE "continue"

\* CompleteSonarWorkflow._check_fix_plans_available
CCheckFixPlansAvailable(cs) ==
    IF cs.workflow_status = "error" THEN "error"
    ELSE IF cs.workflow_status \in {"no_fix_plans", "no_valid_fix_plans"} THEN "skip"
    ELSE "continue"

\* CompleteSonarWorkflow._build_workflow: the conditional edges.
CConditionalEdges ==
    [ run_bug_hunter     |-> [continue |-> "validate_fix_plans", error |-> "handle_error"],
      validate_fix_plans |-> [continue |-> "run_code_healer", skip |-> "finalize",
                              error |-> "handle_error"],
      run_code_healer    |-> [continue |-> "finalize", error |-> "handle_error"] ]

\* CodeHealerAgent.__init__ (validate_compilation is False unless the caller
\* sets it) and the locals of process before it is called.
AgentIdle(vc) ==
    [ pc                   |-> "idle",
      validate_compilation |-> vc,
      groups               |-> <<>>,
      gi                   |-> 1,
      fi                   |-> 1,
      group_fixes          |-> <<>>,
      applied_fixes        |-> <<>>,
      created_branches     |-> <<>>,
      merge_requests       |-> <<>>,
      errors               |-> <<>>,
      total_fix_plans      |-> 0 ]

\* process: on to the next fix group, or to the results after the last one.
NextGroup(a) ==
    [a EXCEPT !.gi = a.gi + 1, !.fi = 1, !.group_fixes = <<>>,
              !.pc = IF a.gi + 1 > Len(a.groups) THEN "results" ELSE "fix"]

\* ------------------------------------------------------ MetadataProcessor
\* A Python str is the sequence of its characters.
SensitivePatterns ==
    { <<"p", "a", "s", "s", "w", "o", "r", "d">>, <<"t", "o", "k", "e", "n">>,
      <<"k", "e", "y">>, <<"s", "e", "c", "r", "e", "t">>, <<"a", "u", "t", "h">>,
      <<"c", "r", "e", "d", "e", "n", "t", "i", "a", "l">> }

\* pattern.search(s): the pattern occurs somewhere in s (the inputs are in
\* lower case, so re.IGNORECASE changes nothing).
Search(pattern, s) ==
    \E i \in 1..(Len(s) - Len(pattern) + 1) : SubSeq(s, i, i + Len(pattern) - 1) = pattern

IsSensitive(s) == \E pattern \in SensitivePatterns : Search(pattern, s)

Stars == <<"*", "*", "*">>

\* s[:3]
First3(s) == SubSeq(s, 1, IF Len(s) < 3 THEN Len(s) ELSE 3)

\* _mask_sensitive_data
MaskSensitiveData(s) ==
    IF Len(s) <= 8 THEN Stars
    ELSE First3(s) \o Stars \o SubSeq(s, Len(s) - 2, Len(s))

\* _process_string
ProcessString(s) ==
    IF IsSensitive(s) THEN MaskSensitiveData(s)
    ELSE IF Len(s) > MetadataMaxLength
    THEN SubSeq(s, 1, MetadataMaxLength) \o <<".", ".", ".">>
    ELSE s

\* _sanitize_key
SanitizeKey(key) == IF IsSensitive(key) THEN First3(key) \o Stars ELSE key

\* A metadata value is a str or a dict; a dict is the sequence of its items.
StrValue(s) == [kind |-> "str", s |-> s]
DictValue(items) == [kind |-> "dict", items |-> items]

\* _process_value (and _process_dict for a dict)
RECURSIVE ProcessValue(_, _)
ProcessValue(value, depth) ==
    IF depth >= MetadataMaxDepth THEN StrValue(<<"<", "n", "e", "s", "t", "e", "d", ">">>)
    ELSE IF value.kind = "str" THEN StrValue(ProcessString(value.s))
    ELSE DictValue([i \in DOMAIN value.items |->
                      [key   |-> SanitizeKey(value.items[i].key),
                       value |-> ProcessValue(value.items[i].value, depth + 1)]])

\* process_metadata
process_metadata(metadata) ==
    [i \in DOMAIN metadata |->
        [key   |-> SanitizeKey(metadata[i].key),
         value |-> ProcessValue(metadata[i].value, 0)]]

\* The keyword arguments of a logging call: keys that name sensitive data and
\* one that does not; values that contain a sensitive word, and a long and a
\* short one that do not.
MetadataKeys == { <<"p", "a", "s", "s", "w", "o", "r", "d">>, <<"a", "p", "i", "_", "t", "o", "k", "e", "n">>, <<"u", "s", "e", "r">> }

MetadataStrings ==
    { <<"s", "e", "c", "r", "e", "t", "1", "2", "3", "4", "5", "6">>, <<"a", "b", "c", "1", "2", "3", "d", "e", "f", "4", "5", "6", "g", "h", "i">>, <<"h", "u", "n", "t", "e", "r", "2">> }

MetadataLeaves == { StrValue(s) : s \in MetadataStrings }

\* Values one level down: a str, or a dict with one str item.
MetadataValues ==
    MetadataLeaves \cup
      { DictValue(<<[key |-> k, value |-> v]>>) : k \in MetadataKeys, v \in MetadataLeaves }

MetadataItems == [key : MetadataKeys, value : MetadataValues]

Metadatas == UNION { [1..n -> MetadataItems] : n \in 1..MaxEntries }

\* ------------------------------------------------- BugHunterWorkflow nodes
\* BugHunterWorkflow.run: initial_state, with what the run was set up with:
\* the agent's max_issues_per_run, and whether the graph hands a key that
\* BugHunterWorkflowState does not declare (current_analysis) on to the next
\* node.  analyzed and nodes are the history of the run: the indices
\* _analyze_issue_node took an issue at, and the nodes that ran; forked tells
\* that an error left a node that also has an unconditional edge.
HunterIdle ==
    [ pc                  |-> "idle",
      sonar_issues        |-> <<>>,
      fix_plans           |-> <<>>,
      current_issue_index |-> 0,
      workflow_status     |-> "initialized",
      error_message       |-> None,
      processed_issues    |-> 0,
      total_issues        |-> 0,
      current_analysis    |-> 0,
      results             |-> EmptyDict,
      max_issues_per_run  |-> MaxIssuesPerRun,
      keeps_extra_keys    |-> TRUE,
      forked              |-> FALSE,
      analyzed            |-> <<>>,
      nodes               |-> <<>> ]

\* What a node returns becomes the state of the next node: a key outside the
\* declared state is kept or dropped, as the graph library has it.
StateUpdate(h) == IF h.keeps_extra_keys THEN h ELSE [h EXCEPT !.current_analysis = 0]

BErr(h, msg) == [h EXCEPT !.error_message = msg, !.workflow_status = "error"]

\* _initialize_node
BInitializeNode(h) ==
    [h EXCEPT !.workflow_status = "running", !.error_message = None,
              !.processed_issues = 0, !.total_issues = 0, !.current_issue_index = 0,
              !.sonar_issues = <<>>, !.fix_plans = <<>>, !.results = EmptyDict]

\* agent._prepare_repository() / agent._validate_sonar_connection(): True,
\* False, or an exception.
BStepOutcomes == {"ok", "fail", "raise"}

\* _prepare_repository_node
BPrepareRepositoryNode(h, oc) ==
    CASE oc = "fail"  -> BErr(h, "Failed to prepare repository")
      [] oc = "raise" -> BErr(h, "Repository preparation failed")
      [] OTHER        -> h

\* _connect_sonarqube_node
BConnectSonarqubeNode(h, oc) ==
    CASE oc = "fail"  -> BErr(h, "Failed to connect to SonarQube")
      [] oc = "raise" -> BErr(h, "SonarQube connection failed")
      [] OTHER        -> h

\* _fetch_issues_node: n issues come back (issue i is the i-th in the
\* prioritized order), or the fetch raises.
BFetchIssuesNode(h, oc, n) ==
    IF oc = "raise" THEN BErr(h, "Failed to fetch issues")
    ELSE IF n = 0
    THEN [h EXCEPT !.workflow_status = "completed",
                   !.results = [message |-> "No issues found", fix_plans |-> <<>>]]
    ELSE [h EXCEPT !.sonar_issues = [i \in 1..n |-> i], !.total_issues = n,
                   !.current_issue_index = 0]

\* _get_code_context gives nothing, _analyze_issue_with_llm gives nothing,
\* one of them raises, or there is an analysis.
AnalysisOutcomes == {"no_context", "no_analysis", "raise", "ok"}

\* _analyze_issue_node
BAnalyzeIssueNode(h, oc) ==
    IF h.current_issue_index >= Len(h.sonar_issues)
    THEN [h EXCEPT !.workflow_status = "completed"]
    ELSE LET current_issue == h.sonar_issues[h.current_issue_index + 1]
             taken == [h EXCEPT !.analyzed = Append(@, h.current_issue_index)]
         IN  IF oc = "ok"
             THEN [taken EXCEPT !.current_analysis = current_issue]
             ELSE [taken EXCEPT !.current_issue_index = @ + 1]

\* agent._create_fix_plan: a plan, None, or an exception.
PlanOutcomes == {"plan", "none", "raise"}

\* _create_fix_plan_node (a fix plan is written as the issue it is for)
BCreateFixPlanNode(h, oc) ==
    IF h.current_analysis = 0 THEN [h EXCEPT !.current_issue_index = @ + 1]
    ELSE CASE oc = "plan" -> [h EXCEPT !.fix_plans = Append(@, h.current_analysis),
                                       !.processed_issues = @ + 1,
                                       !.current_analysis = 0]
           [] oc = "none" -> [h EXCEPT !.current_analysis = 0]
           [] OTHER       -> h

\* _update_langfuse_node: with or without a fix plan to report, it moves to
\* the next issue.
BUpdateLangfuseNode(h) == [h EXCEPT !.current_issue_index = @ + 1]

\* _finalize_node
BFinalizeNode(h) ==
    [h EXCEPT !.workflow_status = "completed",
              !.results = [ status      |-> "success",
                            processed   |-> h.processed_issues,
                            total       |-> h.total_issues,
                            fix_plans   |-> h.fix_plans,
                            total_plans |-> Len(h.fix_plans) ]]

\* _handle_error_node
BHandleErrorNode(h) ==
    [h EXCEPT !.results = [ status      |-> "error",
                            message     |-> h.error_message,
                            fix_plans   |-> h.fix_plans,
                            total_plans |-> Len(h.fix_plans) ]]

\* run: the result of its except branch
BRunExceptResult ==
    [status |-> "error", message |-> "Workflow execution failed", fix_plans |-> <<>>,
     total_plans |-> 0]

\* A _should_continue_processing without the limit on processed issues.
BShouldContinueProcessing_no_limit(h) ==
    IF h.workflow_status = "error" THEN "error"
    ELSE IF h.current_issue_index >= Len(h.sonar_issues) THEN "finalize"
    ELSE "continue"

\* _should_continue_processing
BShouldContinueProcessing(h) ==
    IF h.workflow_status = "error" THEN "error"
    ELSE IF h.current_issue_index >= Len(h.sonar_issues) THEN "finalize"
    ELSE IF h.processed_issues >= h.max_issues_per_run THEN "finalize"
    ELSE "continue"

\* _check_for_errors
BCheckForErrors(h) == IF h.workflow_status = "error" THEN "error" ELSE "continue"

\* _build_workflow: the node after prepare_repository, connect_sonarqube or
\* fetch_issues.  Each of them has an unconditional edge to its successor and
\* a conditional edge on _check_for_errors: on "error" handle_error is started
\* next to the successor.
BAfter(h, next) ==
    IF BCheckForErrors(h) = "error"
    THEN [h EXCEPT !.pc = "handle_error", !.forked = TRUE]
    ELSE [h EXCEPT !.pc = next]

\* CodeHealerAgent.__init__: max_fixes_per_branch and batch_similar_fixes,
\* before _group_fixes is called.
GroupingIdle ==
    [ pc |-> "idle", fix_plans |-> <<>>, max_fixes_per_branch |-> MaxFixesPerBranch,
      batch_similar_fixes |-> TRUE, groups |-> <<>> ]

\* ------------------------------------------------------------------ state
VARIABLES
    config,        \* the Config the workflows were constructed with
    entry,         \* the method the caller started: "healer" (CodeHealerWorkflow.run),
                   \* "complete" (CompleteSonarWorkflow.run), or None
    pc,            \* the node CodeHealerWorkflow's graph runs next
    state,         \* CodeHealerWorkflowState
    cpc,           \* the node CompleteSonarWorkflow's graph runs next
    cstate,        \* CompleteWorkflowState
    repo,          \* the working tree, the local branches and the remote
    applierCalls,  \* the plans handed to agent.apply_fix, in order
    returned,      \* the result handed back to the caller (no keys: not yet)
    agent,         \* CodeHealerAgent.process: its position and its locals
    history,       \* the nodes CodeHealerWorkflow's graph has run, in order
    given,         \* the fix_plans CodeHealerWorkflow.run was called with
    store,         \* FixPlanStorage: the project file and the last call's result
    cfg,           \* Config(): the environment it reads and what it yields
    hunter,        \* BugHunterWorkflow: the node its graph runs next and its state
    session,       \* the session dict of the last create_atomic_fixes_session
    meta,          \* MetadataProcessor: the metadata of a logging call and what is logged
    grouping,      \* _group_fixes: its input, the agent's settings and its result
    runs           \* two concurrent runs, each on its own clone, and their backup directories

vars == <<config, entry, pc, state, cpc, cstate, repo, applierCalls, returned, agent, history,
          given, store, cfg,
          hunter,
          session,
          meta,
          grouping,
          runs>>

\* FixPlanStorage before any call, its project file holding `file`.
StoreIdle(file) == [pc |-> "idle", file |-> file, plan |-> None, saved |-> FALSE, loaded |-> <<>>]

\* The environment with the required variables set and every default of
\* Config.__init__, before the constructor has run.
DefaultEnvironment ==
    [ pc  |-> "env",
      env |-> [ required                         |-> TRUE,
                malformed                        |-> FALSE,
                metadata_max_depth               |-> 3,
                metadata_max_length              |-> 1000,
                slow_operation_threshold_ms      |-> 5000,
                very_slow_operation_threshold_ms |-> 10000,
                low_throughput_threshold         |-> Float(10),
                high_error_rate_threshold        |-> Float(1) ] ]

Init ==
    /\ config \in [enable_maven_build_validation : BOOLEAN]
    /\ entry = None
    /\ pc = "idle"
    /\ state = InitialState(<<>>)
    /\ cpc = "idle"
    /\ cstate = CInitialState
    /\ repo \in {InitRepo(b) : b \in {DefaultBranch, "other"}}
    /\ applierCalls = <<>>
    /\ returned = EmptyDict
    /\ agent = AgentIdle(FALSE)
    /\ history = <<>>
    /\ given = <<>>
    /\ store = StoreIdle(NoFile)
    /\ cfg = DefaultEnvironment
    /\ runs = RunsIdle
    /\ grouping = GroupingIdle
    /\ meta = [pc |-> "idle", raw |-> <<>>, processed |-> <<>>]
    /\ session = NoSession
    /\ hunter = HunterIdle

BuildEnabled == config.enable_maven_build_validation

\* ----------------------------------------------- CodeHealerWorkflow actions
\* run_from_storage(project_key): what get_fix_plans_by_project yields is a
\* list of plans, or it raises.  With plans it returns self.run(fix_plans).
RunFromStorage ==
    /\ entry = None
    /\ \E call \in CallOutcomes, file \in StoredFiles :
          LET load == GetFixPlansByProject(file) IN
          IF call = "raise"
          THEN /\ returned' = StorageErrorResult
               /\ entry' = "storage"
               /\ pc' = "returned"
               /\ UNCHANGED <<state, given>>
          ELSE IF load = <<>>
          THEN /\ returned' = StorageEmptyResult
               /\ entry' = "storage"
               /\ pc' = "returned"
               /\ UNCHANGED <<state, given>>
          ELSE /\ state' = InitialState(load)
               /\ given' = load
               /\ entry' = "healer"
               /\ pc' = "initialize"
               /\ UNCHANGED returned
    /\ UNCHANGED <<config, runs, grouping, meta, session, hunter, cpc, cstate, repo, applierCalls, agent, history, store, cfg>>

\* CodeHealerWorkflow.run(fix_plans), up to workflow.invoke
Run ==
    /\ entry = None
    /\ \E plans \in PlanLists :
          /\ state' = InitialState(plans)
          /\ given' = plans
          /\ entry' = "healer"
          /\ pc' = "initialize"
    /\ UNCHANGED <<config, runs, grouping, meta, session, hunter, cpc, cstate, repo, applierCalls, returned, agent, history, store, cfg>>

Initialize ==
    /\ pc = "initialize"
    /\ state' = InitializeNode(state)
    /\ pc' = "validate_fix_plans"
    /\ history' = Append(history, "initialize")
    /\ UNCHANGED <<config, runs, grouping, meta, session, hunter, entry, cpc, cstate, repo, applierCalls, returned, agent, given, store, cfg>>

ValidateFixPlans ==
    /\ pc = "validate_fix_plans"
    /\ state' = ValidateFixPlansNode(state)
    /\ pc' = Successor("validate_fix_plans", state', BuildEnabled)
    /\ history' = Append(history, "validate_fix_plans")
    /\ UNCHANGED <<config, runs, grouping, meta, session, hunter, entry, cpc, cstate, repo, applierCalls, returned, agent, given, store, cfg>>

CreateBranch ==
    /\ pc = "create_branch"
    /\ \E call \in CallOutcomes, oc \in GitOutcomes :
          LET n == CreateBranchNode(state, repo, call, oc)
          IN  /\ state' = n.state
              /\ repo' = n.repo
    /\ pc' = Successor("create_branch", state', BuildEnabled)
    /\ history' = Append(history, "create_branch")
    /\ UNCHANGED <<config, runs, grouping, meta, session, hunter, entry, cpc, cstate, applierCalls, returned, agent, given, store, cfg>>

ApplyFixes ==
    /\ pc = "apply_fixes"
    /\ \E ocs \in [1..Len(state.fix_plans) -> ApplyOutcomes] :
          LET n == ApplyFixesNode(state, repo, ocs)
          IN  /\ state' = n.state
              /\ repo' = n.repo
              /\ applierCalls' = applierCalls \o n.calls
    /\ pc' = Successor("apply_fixes", state', BuildEnabled)
    /\ history' = Append(history, "apply_fixes")
    /\ UNCHANGED <<config, runs, grouping, meta, session, hunter, entry, cpc, cstate, returned, agent, given, store, cfg>>

ValidateChanges ==
    /\ pc = "validate_changes"
    /\ \E oc \in ValidateOutcomes : state' = ValidateChangesNode(state, oc)
    /\ pc' = Successor("validate_changes", state', BuildEnabled)
    /\ history' = Append(history, "validate_changes")
    /\ UNCHANGED <<config, runs, grouping, meta, session, hunter, entry, cpc, cstate, repo, applierCalls, returned, agent, given, store, cfg>>

MavenCleanBuild ==
    /\ pc = "maven_clean_build"
    /\ \E oc \in BuildOutcomes :
          LET n == BuildValidationNode(state, repo, BuildEnabled, oc)
          IN  /\ state' = n.state
              /\ repo' = n.repo
    /\ pc' = Successor("maven_clean_build", state', BuildEnabled)
    /\ history' = Append(history, "maven_clean_build")
    /\ UNCHANGED <<config, runs, grouping, meta, session, hunter, entry, cpc, cstate, applierCalls, returned, agent, given, store, cfg>>

CommitAndPush ==
    /\ pc = "commit_and_push"
    /\ \E coc \in CommitOutcomes, pok \in BOOLEAN, exc \in CommitPushExc :
          LET n == CommitAndPushNode(state, repo, coc, pok, exc)
          IN  /\ state' = n.state
              /\ repo' = n.repo
    /\ pc' = Successor("commit_and_push", state', BuildEnabled)
    /\ history' = Append(history, "commit_and_push")
    /\ UNCHANGED <<config, runs, grouping, meta, session, hunter, entry, cpc, cstate, applierCalls, returned, agent, given, store, cfg>>

\* create_merge_request -> finalize is an unconditional edge.
CreateMergeRequest ==
    /\ pc = "create_merge_request"
    /\ \E oc \in MrOutcomes :
          LET n == CreateMergeRequestNode(state, repo, oc)
          IN  /\ state' = n.state
              /\ repo' = n.repo
    /\ pc' = "finalize"
    /\ history' = Append(history, "create_merge_request")
    /\ UNCHANGED <<config, runs, grouping, meta, session, hunter, entry, cpc, cstate, applierCalls, returned, agent, given, store, cfg>>

Finalize ==
    /\ pc = "finalize"
    /\ state' = FinalizeNode(state)
    /\ pc' = "END"
    /\ history' = Append(history, "finalize")
    /\ UNCHANGED <<config, runs, grouping, meta, session, hunter, entry, cpc, cstate, repo, applierCalls, returned, agent, given, store, cfg>>

HandleError ==
    /\ pc = "handle_error"
    /\ state' = HandleErrorNode(state)
    /\ pc' = "END"
    /\ history' = Append(history, "handle_error")
    /\ UNCHANGED <<config, runs, grouping, meta, session, hunter, entry, cpc, cstate, repo, applierCalls, returned, agent, given, store, cfg>>

\* CodeHealerWorkflow.run: workflow.invoke raises before a node has run.
InvokeRaises ==
    /\ pc = "initialize"
    /\ pc' = "raised"
    /\ UNCHANGED <<config, runs, grouping, meta, session, hunter, entry, state, cpc, cstate, repo, applierCalls, returned, agent, history, given, store, cfg>>

\* CodeHealerWorkflow.run: return final_state["results"], or the result of
\* the except branch
RunReturn ==
    /\ entry = "healer"
    /\ pc \in {"END", "raised"}
    /\ returned' = RunResult(pc, state)
    /\ pc' = "returned"
    /\ UNCHANGED <<config, runs, grouping, meta, session, hunter, entry, state, cpc, cstate, repo, applierCalls, agent, history, given, store, cfg>>

\* -------------------------------------------- CompleteSonarWorkflow actions
\* CompleteSonarWorkflow.run(project_key, severities), up to workflow.invoke
CRun ==
    /\ entry = None
    /\ entry' = "complete"
    /\ cstate' = CInitialState
    /\ cpc' = "initialize"
    /\ UNCHANGED <<config, runs, grouping, meta, session, hunter, pc, state, repo, applierCalls, returned, agent, history, given, store, cfg>>

CInitialize ==
    /\ cpc = "initialize"
    /\ cstate' = CInitializeNode(cstate)
    /\ cpc' = "run_bug_hunter"
    /\ UNCHANGED <<config, runs, grouping, meta, session, hunter, entry, pc, state, repo, applierCalls, returned, agent, history, given, store, cfg>>

CRunBugHunter ==
    /\ cpc = "run_bug_hunter"
    /\ \E call \in CallOutcomes,
          res \in {BugHunterSuccess(plans) : plans \in PlanLists} \cup {BugHunterError} :
          cstate' = CRunBugHunterNode(cstate, call, res)
    /\ cpc' = CConditionalEdges["run_bug_hunter"][CCheckForErrors(cstate')]
    /\ UNCHANGED <<config, runs, grouping, meta, session, hunter, entry, pc, state, repo, applierCalls, returned, agent, history, given, store, cfg>>

CValidateFixPlans ==
    /\ cpc = "validate_fix_plans"
    /\ cstate' = CValidateFixPlansNode(cstate)
    /\ cpc' = CConditionalEdges["validate_fix_plans"][CCheckFixPlansAvailable(cstate')]
    /\ UNCHANGED <<config, runs, grouping, meta, session, hunter, entry, pc, state, repo, applierCalls, returned, agent, history, given, store, cfg>>

\* _run_code_healer_node up to the call of code_healer_workflow.run
CRunCodeHealer ==
    /\ cpc = "run_code_healer"
    /\ pc = "idle"
    /\ cstate' = [cstate EXCEPT !.workflow_status = "code_healer"]
    /\ state' = InitialState(cstate.fix_plans)
    /\ given' = cstate.fix_plans
    /\ pc' = "initialize"
    /\ UNCHANGED <<config, runs, grouping, meta, session, hunter, entry, cpc, repo, applierCalls, returned, agent, history, store, cfg>>

\* code_healer_workflow.run returns its result into the node
CRunCodeHealerReturn ==
    /\ cpc = "run_code_healer"
    /\ pc \in {"END", "raised"}
    /\ cstate' = CRunCodeHealerNode(cstate, RunResult(pc, state))
    /\ cpc' = CConditionalEdges["run_code_healer"][CCheckForErrors(cstate')]
    /\ pc' = "returned"
    /\ UNCHANGED <<config, runs, grouping, meta, session, hunter, entry, state, repo, applierCalls, returned, agent, history, given, store, cfg>>

CFinalize ==
    /\ cpc = "finalize"
    /\ cstate' = CFinalizeNode(cstate)
    /\ cpc' = "END"
    /\ UNCHANGED <<config, runs, grouping, meta, session, hunter, entry, pc, state, repo, applierCalls, returned, agent, history, given, store, cfg>>

CHandleError ==
    /\ cpc = "handle_error"
    /\ cstate' = CHandleErrorNode(cstate)
    /\ cpc' = "END"
    /\ UNCHANGED <<config, runs, grouping, meta, session, hunter, entry, pc, state, repo, applierCalls, returned, agent, history, given, store, cfg>>

\* CompleteSonarWorkflow.run: return final_state["results"]
CRunReturn ==
    /\ entry = "complete"
    /\ cpc = "END"
    /\ returned' = cstate.results
    /\ cpc' = "returned"
    /\ UNCHANGED <<config, runs, grouping, meta, session, hunter, entry, pc, state, cstate, repo, applierCalls, agent, history, given, store, cfg>>

\* ------------------------------------------ CodeHealerAgent.process actions
\* process(fix_plans) up to the loop over the fix groups; the caller may have
\* switched validate_compilation on.
AProcess ==
    /\ entry = None
    /\ agent.pc = "idle"
    /\ \E plans \in AgentPlanLists, vc \in BOOLEAN :
          LET groups == GroupFixes(plans)
          IN  agent' = [agent EXCEPT !.groups = groups,
                                     !.validate_compilation = vc,
                                     !.total_fix_plans = Len(plans),
                                     !.pc = IF groups = <<>> THEN "results" ELSE "fix"]
    /\ entry' = "process"
    /\ UNCHANGED <<config, runs, grouping, meta, session, hunter, pc, state, cpc, cstate, repo, applierCalls, returned, history, given, store, cfg>>

\* one iteration of "for fix_plan in fix_group"
AProcessSingleFix ==
    /\ agent.pc = "fix"
    /\ \E oc \in FixOutcomes :
          LET p == agent.groups[agent.gi][agent.fi]
              res == ProcessSingleFix(p, agent.validate_compilation, oc, repo)
              keep == res.code_fix.some /\ IsValidCodeFix(res.code_fix)
              a1 == IF keep
                    THEN [agent EXCEPT !.group_fixes = Append(@, res.code_fix),
                                       !.applied_fixes = Append(@, res.code_fix)]
                    ELSE agent
              last == agent.fi = Len(agent.groups[agent.gi])
          IN  /\ repo' = res.repo
              /\ agent' = IF ~last THEN [a1 EXCEPT !.fi = agent.fi + 1]
                          ELSE IF a1.group_fixes # <<>> THEN [a1 EXCEPT !.pc = "git"]
                          ELSE NextGroup(a1)
    /\ UNCHANGED <<config, runs, grouping, meta, session, hunter, entry, pc, state, cpc, cstate, applierCalls, returned, history, given, store, cfg>>

\* "if group_fixes:" branch, commit, push and merge request of one group
AGroupGit ==
    /\ agent.pc = "git"
    /\ \E oc \in GitOutcomes :
          LET g == CreateGitBranchAndCommit(agent.group_fixes, repo, oc)
          IN  /\ repo' = g.repo
              /\ agent' = NextGroup(
                    IF g.raised
                    THEN [agent EXCEPT !.errors = Append(@, "Failed to create Git branch for group")]
                    ELSE [agent EXCEPT !.created_branches = Append(@, g.branch_name)])
    /\ UNCHANGED <<config, runs, grouping, meta, session, hunter, entry, pc, state, cpc, cstate, applierCalls, returned, history, given, store, cfg>>

\* process: "Prepare results" and return
AResults ==
    /\ agent.pc = "results"
    /\ returned' = [ total_fix_plans  |-> agent.total_fix_plans,
                     fixes_applied    |-> Len(agent.applied_fixes),
                     branches_created |-> Len(agent.created_branches),
                     errors           |-> agent.errors,
                     applied_fixes    |-> agent.applied_fixes ]
    /\ agent' = [agent EXCEPT !.pc = "done"]
    /\ UNCHANGED <<config, runs, grouping, meta, session, hunter, entry, pc, state, cpc, cstate, repo, applierCalls, history, given, store, cfg>>

\* ------------------------------------------------- FixPlanStorage actions
\* save_fix_plan(fix_plan, project_key)
SaveFixPlan ==
    /\ store.pc = "idle"
    /\ \E p \in StoragePlans :
          LET res == SaveFixPlanResult(p, store.file)
          IN  store' = [store EXCEPT !.pc = "saved", !.plan = p, !.saved = res.ok,
                                     !.file = res.file]
    /\ UNCHANGED <<config, runs, grouping, meta, session, hunter, entry, pc, state, cpc, cstate, repo, applierCalls, returned, agent,
                   history, given, cfg>>

\* get_fix_plans_by_project(project_key)
LoadFixPlans ==
    /\ store.pc \in {"idle", "saved"}
    /\ store' = [store EXCEPT !.pc = "loaded", !.loaded = GetFixPlansByProject(store.file)]
    /\ UNCHANGED <<config, runs, grouping, meta, session, hunter, entry, pc, state, cpc, cstate, repo, applierCalls, returned, agent,
                   history, given, cfg>>

\* The storage on its own, over every project file it may find.
InitStorage ==
    /\ config = [enable_maven_build_validation |-> FALSE]
    /\ entry = None
    /\ pc = "idle"
    /\ state = InitialState(<<>>)
    /\ cpc = "idle"
    /\ cstate = CInitialState
    /\ repo = InitRepo(DefaultBranch)
    /\ applierCalls = <<>>
    /\ returned = EmptyDict
    /\ agent = AgentIdle(FALSE)
    /\ history = <<>>
    /\ given = <<>>
    /\ store \in { StoreIdle(f) : f \in StoredFiles }
    /\ cfg = DefaultEnvironment
    /\ runs = RunsIdle
    /\ grouping = GroupingIdle
    /\ meta = [pc |-> "idle", raw |-> <<>>, processed |-> <<>>]
    /\ session = NoSession
    /\ hunter = HunterIdle

NextStorage == SaveFixPlan \/ LoadFixPlans

SpecStorage == InitStorage /\ [][NextStorage]_vars

\* ----------------------------------------------------------- Config action
\* Config()
ConstructConfig ==
    /\ cfg.pc = "env"
    /\ cfg' = ConfigInit(cfg.env)
    /\ UNCHANGED <<config, runs, grouping, meta, session, hunter, entry, pc, state, cpc, cstate, repo, applierCalls, returned, agent,
                   history, given, store>>

\* The constructor on its own, over every environment.
InitConfig ==
    /\ config = [enable_maven_build_validation |-> FALSE]
    /\ entry = None
    /\ pc = "idle"
    /\ state = InitialState(<<>>)
    /\ cpc = "idle"
    /\ cstate = CInitialState
    /\ repo = InitRepo(DefaultBranch)
    /\ applierCalls = <<>>
    /\ returned = EmptyDict
    /\ agent = AgentIdle(FALSE)
    /\ history = <<>>
    /\ given = <<>>
    /\ store = StoreIdle(NoFile)
    /\ cfg \in { [pc |-> "env", env |-> e] : e \in Environments }
    /\ runs = RunsIdle
    /\ grouping = GroupingIdle
    /\ meta = [pc |-> "idle", raw |-> <<>>, processed |-> <<>>]
    /\ session = NoSession
    /\ hunter = HunterIdle

SpecConfig == InitConfig /\ [][ConstructConfig]_vars

\* ------------------------------------------- MetadataProcessor on its own
\* StructuredFormatter.format: the metadata of the record goes through
\* process_metadata before it is written out.
ProcessMetadata ==
    /\ meta.pc = "raw"
    /\ meta' = [meta EXCEPT !.pc = "logged", !.processed = process_metadata(meta.raw)]
    /\ UNCHANGED <<config, runs, grouping, session, hunter, entry, pc, state, cpc, cstate, repo, applierCalls,
                   returned, agent, history, given, store, cfg>>

InitMetadata ==
    /\ config = [enable_maven_build_validation |-> FALSE]
    /\ entry = None
    /\ pc = "idle"
    /\ state = InitialState(<<>>)
    /\ cpc = "idle"
    /\ cstate = CInitialState
    /\ repo = InitRepo(DefaultBranch)
    /\ applierCalls = <<>>
    /\ returned = EmptyDict
    /\ agent = AgentIdle(FALSE)
    /\ history = <<>>
    /\ given = <<>>
    /\ store = StoreIdle(NoFile)
    /\ cfg = DefaultEnvironment
    /\ runs = RunsIdle
    /\ grouping = GroupingIdle
    /\ meta \in { [pc |-> "raw", raw |-> md, processed |-> <<>>] : md \in Metadatas }
    /\ session = NoSession
    /\ hunter = HunterIdle

SpecMetadata == InitMetadata /\ [][ProcessMetadata]_vars

\* ------------------------------------------------ _group_fixes on its own
\* CodeHealerAgent._group_fixes(fix_plans)
GroupFixesCall ==
    /\ grouping.pc = "called"
    /\ grouping' = [grouping EXCEPT
                       !.pc = "returned",
                       !.groups = group_fixes(grouping.fix_plans, grouping.max_fixes_per_branch,
                                              grouping.batch_similar_fixes)]
    /\ UNCHANGED <<config, runs, meta, session, hunter, entry, pc, state, cpc, cstate, repo,
                   applierCalls, returned, agent, history, given, store, cfg>>

InitGroup ==
    /\ config = [enable_maven_build_validation |-> FALSE]
    /\ entry = None
    /\ pc = "idle"
    /\ state = InitialState(<<>>)
    /\ cpc = "idle"
    /\ cstate = CInitialState
    /\ repo = InitRepo(DefaultBranch)
    /\ applierCalls = <<>>
    /\ returned = EmptyDict
    /\ agent = AgentIdle(FALSE)
    /\ history = <<>>
    /\ given = <<>>
    /\ store = StoreIdle(NoFile)
    /\ cfg = DefaultEnvironment
    /\ runs = RunsIdle
    /\ grouping \in [ pc : {"called"}, fix_plans : Batches, max_fixes_per_branch : BranchLimits,
                     batch_similar_fixes : BOOLEAN, groups : {<<>>} ]
    /\ meta = [pc |-> "idle", raw |-> <<>>, processed |-> <<>>]
    /\ session = NoSession
    /\ hunter = HunterIdle

SpecGroup == InitGroup /\ [][GroupFixesCall]_vars

\* ---------------------------------------------- two runs on their own clones
\* Run i creates its branch in its clone (the clone is fresh: checkout and
\* pull of the default branch succeed).
RCreateBranch ==
    /\ \E i \in RunIds :
          /\ runs.pc[i] = "start"
          /\ \E oc \in { o \in GitOutcomes : o.checkout = "ok" /\ o.pull = "ok" } :
                LET c == create_branch(runs.repo[i], BranchOf(i), oc)
                IN  runs' = [runs EXCEPT !.repo[i] = c.repo,
                                         !.pc[i] = IF c.ok THEN "next" ELSE "done"]
    /\ UNCHANGED <<config, grouping, meta, session, hunter, entry, pc, state, cpc, cstate, repo,
                   applierCalls, returned, agent, history, given, store, cfg>>

\* _process_single_fix of run i up to _apply_fix_to_file: the plan is given up
\* before anything is written, or the file is backed up and overwritten with
\* the fixed code.
RApplyFixToFile ==
    /\ \E i \in RunIds :
          /\ runs.pc[i] = "next"
          /\ runs.n[i] < MaxRunFixes
          /\ \E f \in Files, written \in BOOLEAN :
                IF ~written THEN runs' = [runs EXCEPT !.n[i] = @ + 1]
                ELSE runs' = [runs EXCEPT
                        !.backups = create_backup(@, BackupDir(i, runs.same_cwd), f,
                                                  runs.repo[i].disk[f]),
                        !.repo[i] = WriteFile(@, f, FixedCode(i)),
                        !.file[i] = f,
                        !.pc[i] = "written"]
    /\ UNCHANGED <<config, grouping, meta, session, hunter, entry, pc, state, cpc, cstate, repo,
                   applierCalls, returned, agent, history, given, store, cfg>>

\* _process_single_fix of run i after _apply_fix_to_file: _validate_fix, the
\* restore when the fix is not valid, and process keeping the fix when it is
\* valid and has no validation error.
RValidateFix ==
    /\ \E i \in RunIds :
          /\ runs.pc[i] = "written"
          /\ \E oc \in ValidationOutcomes :
                LET v == IF runs.validate_compilation THEN oc ELSE "clean"
                    f == runs.file[i]
                IN  runs' = [runs EXCEPT
                        !.repo[i] = IF v \in {"clean", "warnings"} THEN @
                                    ELSE RestoreFromBackup(@, runs.backups,
                                                           BackupDir(i, runs.same_cwd), f),
                        !.applied[i] = IF v = "clean" THEN @ \cup {f} ELSE @,
                        !.n[i] = @ + 1,
                        !.pc[i] = "next"]
    /\ UNCHANGED <<config, grouping, meta, session, hunter, entry, pc, state, cpc, cstate, repo,
                   applierCalls, returned, agent, history, given, store, cfg>>

\* GitClient.commit_changes in the clone of run i, once a fix was applied:
\* "git add ." stages every change of the working tree.
RCommitChanges ==
    /\ \E i \in RunIds :
          /\ runs.pc[i] = "next"
          /\ runs.applied[i] # {}
          /\ \E oc \in CommitOutcomes :
                runs' = [runs EXCEPT !.repo[i] = commit_changes(@, oc).repo,
                                     !.pc[i] = "done"]
    /\ UNCHANGED <<config, grouping, meta, session, hunter, entry, pc, state, cpc, cstate, repo,
                   applierCalls, returned, agent, history, given, store, cfg>>

NextRuns == RCreateBranch \/ RApplyFixToFile \/ RValidateFix \/ RCommitChanges

InitRuns ==
    /\ config = [enable_maven_build_validation |-> FALSE]
    /\ entry = None
    /\ pc = "idle"
    /\ state = InitialState(<<>>)
    /\ cpc = "idle"
    /\ cstate = CInitialState
    /\ repo = InitRepo(DefaultBranch)
    /\ applierCalls = <<>>
    /\ returned = EmptyDict
    /\ agent = AgentIdle(FALSE)
    /\ history = <<>>
    /\ given = <<>>
    /\ store = StoreIdle(NoFile)
    /\ cfg = DefaultEnvironment
    /\ grouping = GroupingIdle
    /\ meta = [pc |-> "idle", raw |-> <<>>, processed |-> <<>>]
    /\ session = NoSession
    /\ hunter = HunterIdle
    /\ \E same_cwd \in BOOLEAN, vc \in BOOLEAN :
          runs = [RunsIdle EXCEPT !.same_cwd = same_cwd,
                                  !.validate_compilation = vc,
                                  !.pc = [i \in RunIds |-> "start"]]

SpecRuns == InitRuns /\ [][NextRuns]_vars

\* ---------------------------------------------------- GitClient on its own
\* Something rewrites a file of the working tree.
GWriteFile ==
    /\ entry = None
    /\ Len(repo.writes) + Len(repo.ops) < MaxGitCalls
    /\ \E f \in Files, c \in Contents : repo' = WriteFile(repo, f, c)
    /\ UNCHANGED <<config, runs, grouping, meta, session, hunter, entry, pc, state, cpc, cstate, applierCalls, returned, agent,
                   history, given, store, cfg>>

\* GitClient.commit_changes(commit_message)
GCommitChanges ==
    /\ entry = None
    /\ Len(repo.writes) + Len(repo.ops) < MaxGitCalls
    /\ \E oc \in CommitOutcomes : repo' = commit_changes(repo, oc).repo
    /\ UNCHANGED <<config, runs, grouping, meta, session, hunter, entry, pc, state, cpc, cstate, applierCalls, returned, agent,
                   history, given, store, cfg>>

\* What git does in create_atomic_fixes_session: the checkout and the pull of
\* the default branch end the same way.
SessionGitOutcomes == { oc \in GitOutcomes : oc.checkout = oc.pull }

\* GitClient.create_atomic_fixes_session()
GCreateSession ==
    /\ entry = None
    /\ Len(repo.writes) + Len(repo.ops) < MaxGitCalls
    /\ \E probe \in ProbeOutcomes, oc \in SessionGitOutcomes :
          LET c == create_atomic_fixes_session(repo, probe, oc)
          IN  /\ session' = c.session
              /\ repo' = c.repo
    /\ UNCHANGED <<config, runs, grouping, meta, hunter, entry, pc, state, cpc, cstate, applierCalls, returned, agent,
                   history, given, store, cfg>>

\* GitClient.finalize_atomic_fixes_session(session, applied_fixes), with a
\* session that create_atomic_fixes_session returned
GFinalizeSession ==
    /\ entry = None
    /\ session.status # "none"
    /\ Len(repo.writes) + Len(repo.ops) < MaxGitCalls
    /\ \E coc \in CommitOutcomes, pok \in BOOLEAN, mroc \in MrOutcomes :
          LET f == finalize_atomic_fixes_session(session, repo, coc, pok, mroc)
          IN  /\ session' = f.session
              /\ repo' = f.repo
    /\ UNCHANGED <<config, runs, grouping, meta, hunter, entry, pc, state, cpc, cstate, applierCalls, returned, agent,
                   history, given, store, cfg>>

NextGit == GWriteFile \/ GCommitChanges \/ GCreateSession \/ GFinalizeSession

SpecGit == Init /\ [][NextGit]_vars

\* ----------------------------------------------- BugHunterWorkflow actions
\* IssueLimits: the values of agent.max_issues_per_run a run is set up with.
IssueLimits == {1, 2, MaxIssuesPerRun}

\* The node has run: it is in the history, and what it returned is the state.
Ran(h, node) == StateUpdate([h EXCEPT !.nodes = Append(@, node)])

\* BugHunterWorkflow.run(project_key, severities, issue_types)
HRun ==
    /\ entry = None
    /\ hunter.pc = "idle"
    /\ entry' = "hunter"
    /\ \E limit \in IssueLimits, keeps \in BOOLEAN :
          hunter' = [HunterIdle EXCEPT !.pc = "initialize", !.max_issues_per_run = limit,
                                       !.keeps_extra_keys = keeps]
    /\ UNCHANGED <<config, runs, grouping, meta, session, pc, state, cpc, cstate, repo, applierCalls, returned, agent,
                   history, given, store, cfg>>

\* node "initialize"
HInitialize ==
    /\ hunter.pc = "initialize"
    /\ hunter' = [Ran(BInitializeNode(hunter), "initialize") EXCEPT !.pc = "prepare_repository"]
    /\ UNCHANGED <<config, runs, grouping, meta, session, entry, pc, state, cpc, cstate, repo, applierCalls, returned, agent,
                   history, given, store, cfg>>

\* node "prepare_repository"
HPrepareRepository ==
    /\ hunter.pc = "prepare_repository"
    /\ \E oc \in BStepOutcomes :
          hunter' = BAfter(Ran(BPrepareRepositoryNode(hunter, oc), "prepare_repository"),
                           "connect_sonarqube")
    /\ UNCHANGED <<config, runs, grouping, meta, session, entry, pc, state, cpc, cstate, repo, applierCalls, returned, agent,
                   history, given, store, cfg>>

\* node "connect_sonarqube"
HConnectSonarqube ==
    /\ hunter.pc = "connect_sonarqube"
    /\ \E oc \in BStepOutcomes :
          hunter' = BAfter(Ran(BConnectSonarqubeNode(hunter, oc), "connect_sonarqube"),
                           "fetch_issues")
    /\ UNCHANGED <<config, runs, grouping, meta, session, entry, pc, state, cpc, cstate, repo, applierCalls, returned, agent,
                   history, given, store, cfg>>

\* node "fetch_issues"
HFetchIssues ==
    /\ hunter.pc = "fetch_issues"
    /\ \E oc \in {"ok", "raise"}, n \in 0..MaxIssues :
          hunter' = BAfter(Ran(BFetchIssuesNode(hunter, oc, n), "fetch_issues"),
                           "analyze_issue")
    /\ UNCHANGED <<config, runs, grouping, meta, session, entry, pc, state, cpc, cstate, repo, applierCalls, returned, agent,
                   history, given, store, cfg>>

\* node "analyze_issue"
HAnalyzeIssue ==
    /\ hunter.pc = "analyze_issue"
    /\ \E oc \in AnalysisOutcomes :
          hunter' = [Ran(BAnalyzeIssueNode(hunter, oc), "analyze_issue")
                        EXCEPT !.pc = "create_fix_plan"]
    /\ UNCHANGED <<config, runs, grouping, meta, session, entry, pc, state, cpc, cstate, repo, applierCalls, returned, agent,
                   history, given, store, cfg>>

\* node "create_fix_plan"
HCreateFixPlan ==
    /\ hunter.pc = "create_fix_plan"
    /\ \E oc \in PlanOutcomes :
          hunter' = [Ran(BCreateFixPlanNode(hunter, oc), "create_fix_plan")
                        EXCEPT !.pc = "update_langfuse"]
    /\ UNCHANGED <<config, runs, grouping, meta, session, entry, pc, state, cpc, cstate, repo, applierCalls, returned, agent,
                   history, given, store, cfg>>

\* node "update_langfuse" and the conditional edge on _should_continue_processing
HUpdateLangfuse ==
    /\ hunter.pc = "update_langfuse"
    /\ LET h == Ran(BUpdateLangfuseNode(hunter), "update_langfuse")
           edges == [continue |-> "analyze_issue", finalize |-> "finalize",
                     error |-> "handle_error"]
       IN  hunter' = [h EXCEPT !.pc = edges[BShouldContinueProcessing(h)]]
    /\ UNCHANGED <<config, runs, grouping, meta, session, entry, pc, state, cpc, cstate, repo, applierCalls, returned, agent,
                   history, given, store, cfg>>

\* node "finalize"
HFinalize ==
    /\ hunter.pc = "finalize"
    /\ hunter' = [Ran(BFinalizeNode(hunter), "finalize") EXCEPT !.pc = "END"]
    /\ UNCHANGED <<config, runs, grouping, meta, session, entry, pc, state, cpc, cstate, repo, applierCalls, returned, agent,
                   history, given, store, cfg>>

\* node "handle_error".  When it runs next to the successor of the failed node, the
\* two write the same state keys in one step: the graph takes one of them or
\* invoke raises.
HHandleError ==
    /\ hunter.pc = "handle_error"
    /\ \E conflict \in BOOLEAN :
          hunter' = [Ran(BHandleErrorNode(hunter), "handle_error")
                        EXCEPT !.pc = IF hunter.forked /\ conflict THEN "raised" ELSE "END"]
    /\ UNCHANGED <<config, runs, grouping, meta, session, entry, pc, state, cpc, cstate, repo, applierCalls, returned, agent,
                   history, given, store, cfg>>

\* run: return final_state["results"], or the result of the except branch
HReturn ==
    /\ hunter.pc \in {"END", "raised"}
    /\ returned' = IF hunter.pc = "END" THEN hunter.results ELSE BRunExceptResult
    /\ hunter' = [hunter EXCEPT !.pc = "returned"]
    /\ UNCHANGED <<config, runs, grouping, meta, session, entry, pc, state, cpc, cstate, repo, applierCalls, agent,
                   history, given, store, cfg>>

NextHunter ==
    \/ HRun \/ HInitialize \/ HPrepareRepository \/ HConnectSonarqube \/ HFetchIssues
    \/ HAnalyzeIssue \/ HCreateFixPlan \/ HUpdateLangfuse \/ HFinalize \/ HHandleError
    \/ HReturn

SpecHunter == Init /\ [][NextHunter]_vars

\* invoke runs the graph node after node until END: a run that can take a step
\* takes one.
SpecHunterFair == SpecHunter /\ WF_vars(NextHunter)

NextAgent == AProcess \/ AProcessSingleFix \/ AGroupGit \/ AResults

SpecAgent == Init /\ [][NextAgent]_vars

Next ==
    \/ Run \/ RunFromStorage \/ InvokeRaises \/ Initialize \/ ValidateFixPlans \/ CreateBranch \/ ApplyFixes
    \/ ValidateChanges \/ MavenCleanBuild \/ CommitAndPush \/ CreateMergeRequest
    \/ Finalize \/ HandleError \/ RunReturn
    \/ CRun \/ CInitialize \/ CRunBugHunter \/ CValidateFixPlans \/ CRunCodeHealer
    \/ CRunCodeHealerReturn \/ CFinalize \/ CHandleError \/ CRunReturn

Spec == Init /\ [][Next]_vars

\* -------------------------------------------------------------- properties
\* The positions in the log of the calls of the given kinds.
OpsOf(kinds) == { i \in DOMAIN repo.ops : repo.ops[i].op \in kinds }

Failed(kinds) == \E i \in OpsOf(kinds) : ~repo.ops[i].ok

Succeeded(kinds) == \E i \in OpsOf(kinds) : repo.ops[i].ok

\* The caller has its result.
HasReturned == DOMAIN returned # {}

\* CodeHealerWorkflow's graph has reached END: state.results is its result.
HealerDone == pc \in {"END", "returned"}

\* The build command ran and exited with a non-zero code.
BuildExitedNonZero == \E i \in OpsOf({"build"}) : repo.ops[i].arg = "exit_nonzero"

\* The working tree that results from the writes of the run, in order.
RECURSIVE Replay(_, _)
Replay(tree, ws) ==
    IF ws = <<>> THEN tree
    ELSE Replay([tree EXCEPT ![Head(ws).file] = Head(ws).content], Tail(ws))

AppliedTree == Replay(BaseTree, repo.writes)

C2_PushOnlyAfterOneCommitOfAllFixes ==
    \A b \in BranchNames :
        repo.pushed[b] =>
            /\ Len(repo.commits[b]) = 1
            /\ repo.commits[b][1] = AppliedTree
            /\ repo.remote[b] = repo.commits[b]

\* C2, amended: a push is attempted at most once, only on the run's branch and
\* only right after commit_changes returned True.  What is pushed is one commit
\* of the whole working tree, which holds every applied fix, or no commit at
\* all when the applied fixes left the tree as it was (commit_changes then
\* returns True without committing).  Otherwise nothing is pushed.
C2_PushOnlyAfterCommitChangesSucceeded ==
    /\ \A b \in BranchNames \ {RunBranch} : ~repo.pushed[b] /\ repo.commits[b] = <<>>
    /\ Cardinality(OpsOf({"push"})) <= 1
    /\ \A i \in OpsOf({"push"}) :
          /\ i > 1
          /\ repo.ops[i - 1].op \in {"commit", "commit_noop"}
          /\ repo.ops[i - 1].ok
          /\ repo.ops[i].arg = RunBranch
          /\ state.applied_fixes # <<>>
          /\ Len(repo.writes) = Len(state.applied_fixes)
    /\ repo.pushed[RunBranch] =>
          /\ Succeeded({"push"})
          /\ repo.remote[RunBranch] = repo.commits[RunBranch]
          /\ repo.commits[RunBranch] = IF AppliedTree = BaseTree THEN <<>> ELSE <<AppliedTree>>
    /\ ~repo.pushed[RunBranch] => repo.remote[RunBranch] = <<>>

\* Two fixes were applied and pushed together in one commit.
C2_Witness ==
    /\ repo.pushed[RunBranch]
    /\ Len(state.applied_fixes) = 2
    /\ repo.remote[RunBranch] = <<AppliedTree>>
    /\ AppliedTree # BaseTree

\* C3 as stated: when branch creation has failed and no branch was created,
\* no file has been written, neither before the attempt nor after it.
C3_BranchFailureLeavesDiskUntouched ==
    (Failed({"create_branch"}) /\ ~Succeeded({"create_branch"})) =>
        /\ repo.writes = <<>>
        /\ repo.disk = BaseTree

\* C4 as stated: no file is written and no commit is made while the default
\* branch is checked out; every write and every commit is on a branch the run
\* created.
C4_TrunkNeverTouched ==
    /\ \A i \in DOMAIN repo.writes :
          /\ repo.writes[i].branch # DefaultBranch
          /\ repo.writes[i].branch \in repo.local \ InitRepo(DefaultBranch).local
    /\ repo.commits[DefaultBranch] = <<>>
    /\ \A b \in InitRepo(DefaultBranch).local : repo.commits[b] = <<>>

\* C5 as stated: a plan whose confidence is below the auto-apply threshold
\* (0.8) does not pass the validator and is never handed to the Fix Applier.
C5_LowConfidenceNeverApplied ==
    /\ \A i \in DOMAIN applierCalls :
          applierCalls[i].confidence_score >= MinConfidenceForAutoFix
    /\ pc \in {"create_branch", "apply_fixes"} =>
          \A i \in DOMAIN state.fix_plans :
              state.fix_plans[i].confidence_score >= MinConfidenceForAutoFix

\* A result that tells of a failed push.
TellsOfPush(res) ==
    \/ "warnings" \in DOMAIN res
    \/ "message" \in DOMAIN res /\ res["message"] \in {"Failed to push branch", "Commit/push failed"}

\* A result that tells of a failed merge request.
TellsOfMergeRequest(res) ==
    \/ "warnings" \in DOMAIN res
    \/ "merge_request_error" \in DOMAIN res

\* C6 as stated: when the commit succeeded and only the push failed, the
\* result has status success and a warning about the push, and the run's
\* branch exists locally.
C6_PushFailureIsAWarning ==
    (HealerDone /\ Failed({"push"})) =>
        /\ state.results.status = "success"
        /\ TellsOfPush(state.results)
        /\ RunBranch \in repo.local

\* A failure of branch creation, of the commit, or of the enabled build gate.
IntegrityFailure ==
    \/ Failed({"create_branch", "commit"})
    \/ BuildEnabled /\ Failed({"build"})

\* C7 as stated: after a branch-creation, commit or enabled-build-gate
\* failure the result the caller gets has status error, from
\* CodeHealerWorkflow.run and from CompleteSonarWorkflow.run alike.
C7_IntegrityFailureReturnsError ==
    (HasReturned /\ IntegrityFailure) => returned.status = "error"

\* C8: when create_merge_request gave no URL or raised (after a commit and a
\* push that succeeded) the graph still goes on to finalize, the workflow is
\* never put in the error status, and the result has status success.
C8_MergeRequestFailureIsNotAnError ==
    Failed({"merge_request"}) =>
        /\ pc \in {"finalize", "END", "returned"}
        /\ state.workflow_status # "error"
        /\ HealerDone => (state.results.status = "success" /\ state.workflow_status = "completed")
        /\ HasReturned => returned.status = "success"

\* The merge request failed after a successful commit and push, and the
\* caller of CodeHealerWorkflow.run has a success result.
C8_Witness ==
    /\ Failed({"merge_request"})
    /\ Succeeded({"commit"})
    /\ Succeeded({"push"})
    /\ entry = "healer"
    /\ HasReturned
    /\ returned.status = "success"

\* C9 as stated: when the push or the merge request failed, the result
\* CodeHealerWorkflow.run returns tells of that failure.
C9_FailureShownInResult ==
    (entry = "healer" /\ HasReturned) =>
        /\ Failed({"push"}) => TellsOfPush(returned)
        /\ Failed({"merge_request"}) => TellsOfMergeRequest(returned)

\* CodeHealerWorkflow.run was called with no plan, or with none that its
\* validator accepts, and validate_fix_plans has run.
ZeroValidHealer ==
    /\ entry = "healer"
    /\ \E i \in DOMAIN history : history[i] = "validate_fix_plans"
    /\ SelectSeq(state.fix_plans, IsValidFixPlan) = <<>>

\* In CompleteSonarWorkflow the Bug Hunter succeeded with no plan, or with none
\* that the validator accepts, and validate_fix_plans has run.
ZeroValidComplete ==
    /\ entry = "complete"
    /\ cpc \notin {"idle", "initialize", "run_bug_hunter", "validate_fix_plans"}
    /\ Get(cstate.bug_hunter_results, "status", None) = "success"
    /\ SelectSeq(cstate.fix_plans, IsValidFixPlan) = <<>>

\* C10 as stated: with zero valid plans the run ends as a successful no-op
\* and makes no branch, commit or push.
C10_ZeroValidPlansIsSuccessfulNoOp ==
    ((ZeroValidHealer \/ ZeroValidComplete) /\ HasReturned) =>
        /\ returned.status = "success"
        /\ repo.ops = <<>>

\* C10, amended: with zero valid plans CompleteSonarWorkflow takes the skip
\* edge to finalize, never starts the Code Healer and returns status success;
\* CodeHealerWorkflow has no skip edge, goes to handle_error and returns
\* status error.  Neither makes a branch, a commit or a push, nor writes a file.
C10_ZeroValidPlansSkipOrError ==
    /\ ZeroValidComplete =>
          /\ cpc \in {"finalize", "END", "returned"}
          /\ pc = "idle"
          /\ repo.ops = <<>> /\ repo.writes = <<>>
          /\ HasReturned => (returned.status = "success" /\ returned.fixes_applied = 0)
    /\ ZeroValidHealer =>
          /\ pc \in {"handle_error", "END", "returned"}
          /\ repo.ops = <<>> /\ repo.writes = <<>>
          /\ HasReturned => returned.status = "error"

\* CompleteSonarWorkflow returned after its validator rejected every plan the
\* Bug Hunter produced.
C10_Witness ==
    /\ ZeroValidComplete
    /\ cstate.fix_plans # <<>>
    /\ HasReturned
    /\ returned.status = "success"

\* h is the beginning of the sequence s.
IsPrefix(h, s) == Len(h) <= Len(s) /\ SubSeq(s, 1, Len(h)) = h

\* h follows the order of the nodes, each node once and right after its
\* predecessor, possibly leaving it once for handle_error, which ends it.
InOrder(h) ==
    \/ IsPrefix(h, NodeOrder)
    \/ /\ Len(h) >= 2
       /\ h[Len(h)] = "handle_error"
       /\ IsPrefix(SubSeq(h, 1, Len(h) - 1), SubSeq(NodeOrder, 1, Len(NodeOrder) - 1))

\* C11: the nodes a run has entered, and the node it enters next, follow the
\* order initialize, validate_fix_plans, create_branch, apply_fixes,
\* validate_changes, maven_clean_build, commit_and_push, create_merge_request,
\* finalize; each is entered at most once, right after its predecessor, and the
\* only departure is the move to handle_error.
C11_NodesInOrder ==
    /\ InOrder(history)
    /\ pc \notin {"idle", "END", "raised", "returned"} => InOrder(Append(history, pc))
    /\ \A i, j \in DOMAIN history : history[i] = history[j] => i = j

\* A run went through all nine nodes and returned.
C11_Witness ==
    /\ history = NodeOrder
    /\ pc = "returned"

\* A node of the run has reported an error.
ErrorReported == state.workflow_status = "error"

\* C12: once a node has reported an error the graph is in, or past,
\* handle_error; no step after that touches the repository (no branch, commit,
\* push, merge request or file write); and the result of the run has status
\* error, the error message, which is not empty, and the numbers of fixes
\* applied and failed so far.
C12_ErrorStopsGitOperations ==
    /\ [](ErrorReported =>
            /\ pc \in {"handle_error", "END", "returned"}
            /\ state.error_message # None
            /\ HealerDone =>
                  /\ state.results.status = "error"
                  /\ state.results.message = state.error_message
                  /\ state.results.fixes_applied = Len(state.applied_fixes)
                  /\ state.results.fixes_failed = Len(state.failed_fixes)
            /\ (entry = "healer" /\ HasReturned) => returned = state.results)
    /\ [][ErrorReported => repo' = repo]_vars

\* A run applied one fix and failed another, its commit failed, and the
\* caller has the error result.
C12_Witness ==
    /\ ErrorReported
    /\ Failed({"commit"})
    /\ state.applied_fixes # <<>>
    /\ state.failed_fixes # <<>>
    /\ entry = "healer"
    /\ HasReturned

\* The positions in the history at which finalize or handle_error ran.
Terminals == { i \in DOMAIN history : history[i] \in {"finalize", "handle_error"} }

\* How far a run has come: the positions of the two graphs along their edges.
Progress ==
    LET rank == [ idle |-> 0, initialize |-> 1, validate_fix_plans |-> 2, create_branch |-> 3,
                  apply_fixes |-> 4, validate_changes |-> 5, maven_clean_build |-> 6,
                  commit_and_push |-> 7, create_merge_request |-> 8, finalize |-> 9,
                  handle_error |-> 9, raised |-> 10, END |-> 10, returned |-> 11 ]
        crank == [ idle |-> 0, initialize |-> 1, run_bug_hunter |-> 2, validate_fix_plans |-> 3,
                   run_code_healer |-> 4, finalize |-> 5, handle_error |-> 5, END |-> 6,
                   returned |-> 7 ]
    IN  rank[pc] + crank[cpc] + (IF entry = None THEN 0 ELSE 1)

C14_PushOnlyAfterAllGates ==
    /\ OpsOf({"push"}) # {} =>
          /\ IsPrefix(SubSeq(NodeOrder, 1, 7), history)
          /\ state.fix_plans # <<>>
          /\ \A i \in DOMAIN state.fix_plans : IsValidFixPlan(state.fix_plans[i])
          /\ Succeeded({"create_branch"})
          /\ repo.current = RunBranch
          /\ state.applied_fixes # <<>>
          /\ state.build_status \in {"skipped", "success"}
          /\ ~Failed({"build", "commit", "create_branch"})
          /\ Succeeded({"commit", "commit_noop"})
          /\ ErrorReported => state.error_message \in {"Failed to push branch", "Commit/push failed"}
    /\ ~IsPrefix(SubSeq(NodeOrder, 1, 7), history) =>
          \A b \in BranchNames : ~repo.pushed[b] /\ repo.remote[b] = <<>>

\* A run whose enabled build passed has pushed its branch and returned.
C14_Witness ==
    /\ Succeeded({"push"})
    /\ BuildEnabled
    /\ state.build_status = "success"
    /\ pc = "returned"

\* A git subprocess or the build ran into its timeout.
TimedOut == \E i \in DOMAIN repo.ops : repo.ops[i].kind = "timeout"

\* The messages of a result that tell of a timeout.
TimeoutMessages == {"build timed out after 5 minutes", "Command timed out"}

\* C15 as stated: when a git subprocess or the build has timed out, the
\* command is not run again, the run ends in handle_error, and its result has
\* status error with a message that tells a timeout from a non-zero exit.
C15_TimeoutEndsInError ==
    TimedOut =>
        /\ \A i, j \in DOMAIN repo.ops :
              (repo.ops[i].op = repo.ops[j].op /\ repo.ops[i].kind = "timeout") => i = j
        /\ "finalize" \notin { history[i] : i \in DOMAIN history }
        /\ HealerDone =>
              /\ state.results.status = "error"
              /\ state.results.message \in TimeoutMessages

\* The entries the call of create_branch logged at position i left before it:
\* uncommitted changes in the working tree, default branch not checked out or
\* not pulled.
UnmetPreconditions(i) ==
    { j \in {i - 2, i - 1} \cap DOMAIN repo.ops :
        /\ repo.ops[j].op \in {"dirty_tree", "sync_base"}
        /\ j = i - 1 \/ repo.ops[i - 1].op = "sync_base" }

\* C16 as stated: create_branch fails and creates no branch when the working
\* tree has uncommitted changes or the checkout or the pull of the default
\* branch fails.
C16_CreateBranchChecksPreconditions ==
    \A i \in OpsOf({"create_branch"}) :
        UnmetPreconditions(i) # {} => ~repo.ops[i].ok

\* The elements of seq at the positions in S, in order.
RECURSIVE Pick(_, _, _)
Pick(seq, S, i) ==
    IF i > Len(seq) THEN <<>>
    ELSE (IF i \in S THEN <<seq[i]>> ELSE <<>>) \o Pick(seq, S, i + 1)

PlansOf(fixes) == [i \in DOMAIN fixes |-> fixes[i].fix_plan]

ApplyFixesRan == "apply_fixes" \in { history[i] : i \in DOMAIN history }

\* C17: once apply_fixes has run, agent.apply_fix has been called once for
\* every valid plan, in the order of the plans, whatever failed or raised on
\* the way, and each plan is in exactly one of applied_fixes and failed_fixes:
\* the two lists split the plans by position.  Before that no plan has been
\* handed to agent.apply_fix.
C17_EveryPlanAttemptedOnce ==
    /\ ~ApplyFixesRan => applierCalls = <<>>
    /\ ApplyFixesRan =>
          /\ applierCalls = state.fix_plans
          /\ \A i \in DOMAIN state.fix_plans : IsValidFixPlan(state.fix_plans[i])
          /\ \E S \in SUBSET DOMAIN state.fix_plans :
                /\ PlansOf(state.applied_fixes) = Pick(state.fix_plans, S, 1)
                /\ PlansOf(state.failed_fixes) =
                      Pick(state.fix_plans, DOMAIN state.fix_plans \ S, 1)

\* The first of two plans raised in agent.apply_fix and the second was applied.
C17_Witness ==
    /\ ApplyFixesRan
    /\ Len(state.fix_plans) = 2
    /\ Len(state.failed_fixes) = 1
    /\ state.failed_fixes[1].error = "exception"
    /\ state.failed_fixes[1].fix_plan = state.fix_plans[1]
    /\ Len(state.applied_fixes) = 1
    /\ state.applied_fixes[1].fix_plan = state.fix_plans[2]

\* The graph has run to END: state.results is the result of a terminal node.
GraphDone == pc \in {"END", "returned"} /\ Terminals # {}

\* The failed fixes with their reasons.
FailedWithReasons(fixes) ==
    [i \in DOMAIN fixes |-> [issue_key |-> fixes[i].fix_plan.issue_key, error |-> fixes[i].error]]

RejectedPlans(plans) == { plans[i] : i \in { j \in DOMAIN plans : ~IsValidFixPlan(plans[j]) } }

\* The plans that figure in a list of applied or of failed fixes.
PlanSet(fixes) == { fixes[i].fix_plan : i \in DOMAIN fixes }

\* C19 as stated: a plan the validator rejected is in neither the applied nor
\* the failed list, and the result of the run reports it as rejected.
C19_RejectedPlansReported ==
    (GraphDone /\ RejectedPlans(given) # {}) =>
        /\ RejectedPlans(given) \cap (PlanSet(state.applied_fixes) \cup PlanSet(state.failed_fixes)) = {}
        /\ \E k \in DOMAIN state.results :
              k \notin {"status", "message", "fixes_applied", "fixes_failed", "total_fixes",
                        "branch_name", "processing_time", "applied_fixes", "failed_fixes",
                        "merge_request_url"}

\* C19, amended: a plan the validator rejected is dropped before the fixes are
\* applied: it is never handed to agent.apply_fix, it is in neither the applied
\* nor the failed list, the counts of the result cover the accepted plans only,
\* and no field of the result mentions it.
C19_RejectedPlansDropped ==
    /\ ApplyFixesRan =>
          /\ state.fix_plans = SelectSeq(given, IsValidFixPlan)
          /\ RejectedPlans(given) \cap { applierCalls[i] : i \in DOMAIN applierCalls } = {}
          /\ RejectedPlans(given) \cap (PlanSet(state.applied_fixes) \cup PlanSet(state.failed_fixes)) = {}
    /\ (GraphDone /\ ApplyFixesRan) =>
          /\ state.results.fixes_applied + state.results.fixes_failed =
                Len(given) - Cardinality({ i \in DOMAIN given : ~IsValidFixPlan(given[i]) })
          /\ state.results.status = "success" =>
                /\ state.results.total_fixes = Len(SelectSeq(given, IsValidFixPlan))
                /\ DOMAIN state.results \subseteq
                      {"status", "fixes_applied", "fixes_failed", "total_fixes", "branch_name",
                       "processing_time", "applied_fixes", "failed_fixes", "merge_request_url"}
                /\ \A i \in DOMAIN state.results.applied_fixes :
                      state.results.applied_fixes[i] \in
                          { p.issue_key : p \in { given[j] : j \in DOMAIN given } \ RejectedPlans(given) }
          /\ state.results.status = "error" =>
                DOMAIN state.results = {"status", "message", "fixes_applied", "fixes_failed"}

\* The run of the three-plan batch has returned: two fixes applied, none
\* failed, and the third plan was rejected by the validator.
C19_Witness ==
    /\ given = ExampleBatch
    /\ Cardinality(RejectedPlans(given)) = 1
    /\ GraphDone
    /\ HasReturned
    /\ returned.status = "success"
    /\ returned.fixes_applied = 2
    /\ returned.fixes_failed = 0

\* run or run_from_storage has returned a result to its caller.
ResultReturned == entry \in {"healer", "storage"} /\ HasReturned

\* C20 as stated: every result run and run_from_storage return has the status
\* success or error and carries fixes_applied, fixes_failed and branch_name.
C20_ResultHasStatusCountsAndBranch ==
    ResultReturned =>
        /\ returned.status \in {"success", "error"}
        /\ {"fixes_applied", "fixes_failed", "branch_name"} \subseteq DOMAIN returned

\* C20, amended: every result run and run_from_storage return has a status
\* among success, warning and error and carries the two counts.  The status
\* warning is the result of run_from_storage on an empty storage, with both
\* counts zero.  Only a success result carries branch_name, the branch the run
\* created; a warning or error result carries a message instead.  When invoke
\* raises, the result counts no applied fix and every given plan as failed.
C20_ResultHasStatusAndCounts ==
    ResultReturned =>
        /\ returned.status \in {"success", "warning", "error"}
        /\ {"fixes_applied", "fixes_failed"} \subseteq DOMAIN returned
        /\ returned.fixes_applied \in 0..Len(given)
        /\ returned.fixes_failed \in 0..Len(given)
        /\ "branch_name" \in DOMAIN returned <=> returned.status = "success"
        /\ returned.status = "success" =>
              /\ returned.branch_name # None
              /\ returned.branch_name \in repo.local
        /\ returned.status # "success" => "message" \in DOMAIN returned
        /\ returned.status = "warning" =>
              /\ entry = "storage"
              /\ returned = StorageEmptyResult
        /\ history = <<>> =>
              /\ returned.fixes_applied = 0
              /\ returned.fixes_failed = Len(given)

\* run_from_storage has found no plan for the project and has returned its
\* warning result.
C20_Witness ==
    /\ entry = "storage"
    /\ HasReturned
    /\ returned.status = "warning"
    /\ "branch_name" \notin DOMAIN returned

\* The build step of the graph has run.
BuildGateRan == "maven_clean_build" \in { history[i] : i \in DOMAIN history }

ToolMissingOutput == "not found in PATH. Skipping build validation."

\* C22: when build validation is disabled, or enabled with the build tool not
\* on the path, the build step stores the build status skipped, runs no build,
\* reports no error and hands over to commit_and_push: this is what the step
\* would do in every state that is about to run it, and what it has done in
\* every state after it.
C22_SkippedGateContinues ==
    /\ pc = "maven_clean_build" =>
          \A oc \in BuildOutcomes :
             (~BuildEnabled \/ oc = "tool_missing") =>
                LET n == BuildValidationNode(state, repo, BuildEnabled, oc)
                IN  /\ n.state.build_status = "skipped"
                    /\ n.repo = repo
                    /\ n.state.workflow_status = "running"
                    /\ n.state.error_message = None
                    /\ Successor("maven_clean_build", n.state, BuildEnabled) = "commit_and_push"
    /\ (BuildGateRan /\ ~BuildEnabled) => state.build_status = "skipped"
    /\ (BuildGateRan /\ state.build_output = ToolMissingOutput) => state.build_status = "skipped"
    /\ (BuildGateRan /\ state.build_status = "skipped") =>
          /\ OpsOf({"build"}) = {}
          /\ IsPrefix(SubSeq(NodeOrder, 1, 6), history)
          /\ pc = "commit_and_push" \/ (Len(history) > 6 /\ history[7] = "commit_and_push")

\* Build validation was enabled, the build tool was missing, and the run went
\* on through commit_and_push to its end without an error.
C22_Witness ==
    /\ BuildEnabled
    /\ state.build_output = ToolMissingOutput
    /\ state.build_status = "skipped"
    /\ pc = "END"
    /\ state.workflow_status = "completed"
    /\ Len(history) > 6
    /\ history[7] = "commit_and_push"

\* C23: a fix that _process_single_fix writes to its file and leaves there
\* (its validation found no syntax error, so the backup is not restored) is
\* counted among the applied fixes, whether or not the validation produced
\* security warnings.
C23_WarningsAreNotFatal ==
    [][(agent.pc = "fix" /\ Len(repo'.writes) = Len(repo.writes) + 1) =>
          /\ Len(agent'.applied_fixes) = Len(agent.applied_fixes) + 1
          /\ Len(agent'.group_fixes) = Len(agent.group_fixes) + 1]_vars

\* C24: no fix that process counts as applied has a replacement content that
\* is empty or equal to the content the file had before: such a content makes
\* the application of the plan fail.
C24_NoOpContentIsFailure ==
    \A i \in DOMAIN agent.applied_fixes :
       /\ agent.applied_fixes[i].fixed_code \in Contents
       /\ agent.applied_fixes[i].fixed_code # agent.applied_fixes[i].original_code

\* The plan the fix loop of process is about to handle.
CurrentPlan == agent.groups[agent.gi][agent.fi]

\* C25: when the line_number of the plan in hand is not a line of its file,
\* the step of the fix loop fails for that plan: it leaves the repository as it
\* is and counts no applied fix (the loop itself goes on to the next plan).
C25_LineOutOfRangeFailsThePlan ==
    [][(/\ agent.pc = "fix"
        /\ CurrentPlan.file_path \in Files
        /\ TargetLineContent(repo.disk[CurrentPlan.file_path], CurrentPlan.line_number) = "") =>
          /\ repo' = repo
          /\ agent'.applied_fixes = agent.applied_fixes]_vars

\* C26: a plan that save_fix_plan was called with has been serialized, and
\* deserializing what was serialized gives back a plan with the same fields and
\* the same value in every field.
C26_FixPlanRoundTrip ==
    store.pc = "saved" =>
        /\ store.saved
        /\ FixPlanToDict(store.plan).raised = None
        /\ DictToFixPlan(FixPlanToDict(store.plan).dict).raised = None
        /\ DictToFixPlan(FixPlanToDict(store.plan).dict).plan = store.plan

\* C27: every Config the constructor has produced has its metadata depth in
\* 1..10, its metadata length in 100..10000, a slow threshold of at least 100
\* ms, a very-slow threshold above the slow one and a high-error-rate threshold
\* in [0, 1]: for anything else the constructor raised.
C27_ConfigWithinBounds ==
    cfg.pc = "constructed" =>
        /\ cfg.object.metadata_max_depth \in 1..10
        /\ cfg.object.metadata_max_length \in 100..10000
        /\ cfg.object.slow_operation_threshold_ms >= 100
        /\ cfg.object.very_slow_operation_threshold_ms > cfg.object.slow_operation_threshold_ms
        /\ ~cfg.object.high_error_rate_threshold.nan
        /\ cfg.object.high_error_rate_threshold.v \in 0..10

\* The nodes that are followed by a conditional edge.
GatedNodes ==
    {"validate_fix_plans", "create_branch", "apply_fixes", "validate_changes",
     "maven_clean_build", "commit_and_push"}

\* The node the graph ran last.
LastNode == history[Len(history)]

\* C28 as stated: every state that is about to run one of the eight nodes
\* before finalize has an edge from that node to handle_error.
C28_ErrorEdgeFromEveryNode ==
    pc \in { NodeOrder[i] : i \in 1..8 } =>
        /\ pc \in DOMAIN ConditionalEdges
        /\ ConditionalEdges[pc]["error"] = "handle_error"

\* C28, amended: the six nodes from validate_fix_plans to commit_and_push have
\* an edge to handle_error, which is taken exactly when the node leaves an
\* error behind; handle_error is entered from no other node.  initialize is
\* always followed by validate_fix_plans (or the invocation raises and no node
\* runs any more) and create_merge_request always by finalize.
C28_ErrorEdgeFromGatedNodes ==
    /\ DOMAIN ConditionalEdges = GatedNodes
    /\ \A n \in GatedNodes : ConditionalEdges[n]["error"] = "handle_error"
    /\ (history # <<>> /\ LastNode \in GatedNodes) =>
          (pc = "handle_error" <=> CheckForErrors(state, BuildEnabled) = "error")
    /\ pc = "handle_error" => (history # <<>> /\ LastNode \in GatedNodes)
    /\ \A i \in DOMAIN history :
          history[i] = "handle_error" => (i > 1 /\ history[i - 1] \in GatedNodes)
    /\ (history # <<>> /\ LastNode = "initialize") => pc = "validate_fix_plans"
    /\ (history # <<>> /\ LastNode = "create_merge_request") => pc = "finalize"

\* create_branch reported an error and the graph is about to run handle_error.
C28_Witness ==
    /\ pc = "handle_error"
    /\ history = <<"initialize", "validate_fix_plans", "create_branch">>
    /\ state.workflow_status = "error"

\* The node the graph ran, or is about to run, right after maven_clean_build.
AfterBuild == IF Len(history) > 6 THEN history[7] ELSE pc

CommitCalled ==
    /\ Len(repo'.ops) = Len(repo.ops) + 1
    /\ repo'.ops[Len(repo'.ops)].op \in {"commit", "commit_noop"}

\* The last logged call, after the step.
LastOpAfter == repo'.ops[Len(repo'.ops)]

\* C30 as stated: commit_changes on a working tree with no change returns
\* success and creates no commit.
C30_CommitOnCleanTreeSucceeds ==
    [][(CommitCalled /\ TreeClean(repo)) =>
          /\ LastOpAfter.ok
          /\ repo'.commits = repo.commits]_vars

\* C30, amended: commit_changes on a working tree with no change creates no
\* commit and touches no file; it returns success unless git status itself
\* fails, in which case it returns failure.  The tree is clean after every
\* successful commit, so a second commit_changes right after one leaves the
\* history of every branch as it is.
C30_CommitOnCleanTreeIsNoOp ==
    /\ [][(CommitCalled /\ TreeClean(repo)) =>
             /\ repo'.commits = repo.commits
             /\ repo'.disk = repo.disk
             /\ LastOpAfter.ok <=> LastOpAfter.kind # "status_failed"
             /\ LastOpAfter.ok => LastOpAfter.op = "commit_noop"]_vars
    /\ [][(CommitCalled /\ LastOpAfter.ok) => TreeClean(repo')]_vars
    /\ [][(CommitCalled /\ ~TreeClean(repo) /\ LastOpAfter.ok) =>
             repo'.commits[repo.current] = Append(repo.commits[repo.current], repo.disk)]_vars

\* commit_changes was called twice in a row after one write: the first call
\* made the commit, the second found nothing to commit and returned success.
C30_Witness ==
    /\ entry = None
    /\ Len(repo.writes) = 1
    /\ Len(repo.ops) = 2
    /\ repo.ops[1].op = "commit" /\ repo.ops[1].ok
    /\ repo.ops[2].op = "commit_noop" /\ repo.ops[2].ok
    /\ Len(repo.commits[repo.current]) = 1

\* The validation outcomes with a syntax failure: javac reports an error, or
\* the validation itself raises and is reported as a syntax error.
SyntaxFailures == {"syntax_error", "raise"}

NodesRun == { history[i] : i \in DOMAIN history }

\* C32: commit_and_push runs only with at least one applied fix.  When
\* apply_fixes ends with no applied fix (every valid plan failed or raised),
\* the state is in error, the next node is handle_error, and the run makes no
\* commit, no push and no merge request.
C32_CommitPushNeedsAnAppliedFix ==
    /\ "commit_and_push" \in NodesRun => state.applied_fixes # <<>>
    /\ (ApplyFixesRan /\ state.applied_fixes = <<>>) =>
          /\ state.workflow_status = "error"
          /\ Len(state.failed_fixes) = Len(state.fix_plans)
          /\ state.fix_plans # <<>>
          /\ NodesRun \cap {"validate_changes", "maven_clean_build", "commit_and_push",
                            "create_merge_request", "finalize"} = {}
          /\ LastNode \in {"apply_fixes", "handle_error"}
          /\ pc \in {"handle_error", "END", "returned"}
          /\ OpsOf({"commit", "commit_noop", "push", "merge_request", "build"}) = {}
          /\ (HasReturned /\ entry = "healer") => returned.status = "error"

\* Two valid plans were handed to agent.apply_fix and neither was applied: the
\* run has ended through handle_error.
C32_Witness ==
    /\ entry = "healer"
    /\ HasReturned
    /\ Len(state.fix_plans) = 2
    /\ Len(applierCalls) = 2
    /\ state.applied_fixes = <<>>
    /\ Len(state.failed_fixes) = 2
    /\ LastNode = "handle_error"
    /\ returned.status = "error"

\* The number of times _analyze_issue_node took the issue at index i.
TimesAnalyzed(i) == Cardinality({ k \in DOMAIN hunter.analyzed : hunter.analyzed[k] = i })

\* The loop of BugHunterWorkflow has stopped: finalize is next or has run.
LoopStopped == hunter.pc = "finalize" \/ "finalize" \in { hunter.nodes[k] : k \in DOMAIN hunter.nodes }

\* C33: when the loop of BugHunterWorkflow has stopped, every fetched issue
\* at an index below current_issue_index has been passed to analysis exactly
\* once, whatever happened to the issues before it.
C33_NoIssueSkipped ==
    LoopStopped =>
        \A i \in 0..(Len(hunter.sonar_issues) - 1) :
            i < hunter.current_issue_index => TimesAnalyzed(i) = 1

LoopNodes == {"analyze_issue", "create_fix_plan", "update_langfuse"}

\* The number of times a node has run.
TimesRun(node) == Cardinality({ k \in DOMAIN hunter.nodes : hunter.nodes[k] = node })

CodeHealerInvoked == entry = "complete" /\ pc # "idle"

\* C35: CompleteSonarWorkflow calls code_healer_workflow.run only when the
\* Bug Hunter step returned a success result and set no error, and only with
\* the plans of that result that passed validation, of which there is at
\* least one.  As long as it has not called it, no git command has run, no
\* file was written and no plan was handed to the agent.
C35_CodeHealerOnlyAfterBugHunterAndValidPlans ==
    /\ CodeHealerInvoked =>
          /\ Get(cstate.bug_hunter_results, "status", None) = "success"
          /\ cstate.error_message = None
          /\ given # <<>>
          /\ \A i \in DOMAIN given : IsValidFixPlan(given[i])
          /\ given = SelectSeq(cstate.bug_hunter_results.fix_plans, IsValidFixPlan)
          /\ cpc \in {"run_code_healer", "finalize", "handle_error", "END", "returned"}
    /\ (entry = "complete" /\ ~CodeHealerInvoked) =>
          /\ repo.ops = <<>>
          /\ repo.writes = <<>>
          /\ applierCalls = <<>>
          /\ history = <<>>
    /\ (entry = "complete" /\ ~CodeHealerInvoked /\ cpc \in {"END", "returned"}) =>
          \/ cstate.workflow_status = "error"
          \/ /\ cstate.workflow_status = "completed"
             /\ SelectSeq(cstate.fix_plans, IsValidFixPlan) = <<>>

\* The Bug Hunter step gave one valid and one invalid plan, the Code Healer
\* step ran with the valid one and pushed its branch, and the run returned.
C35_Witness ==
    /\ entry = "complete"
    /\ cpc = "returned"
    /\ pc = "returned"
    /\ Len(cstate.bug_hunter_results.fix_plans) = 2
    /\ Len(given) = 1
    /\ Succeeded({"create_branch"})
    /\ Succeeded({"push"})
    /\ returned.status = "success"

\* The statuses create_atomic_fixes_session gives a session it could not set
\* up.
FailedCreation == {"validation_failed", "branch_creation_failed"}

\* The step is a call of finalize_atomic_fixes_session.
FinalizeCalled ==
    /\ Len(repo'.ops) > Len(repo.ops)
    /\ session'.status \in {"commit_failed", "push_failed", "completed"}

\* C36: a call of finalize_atomic_fixes_session with a session whose creation
\* ended in validation_failed or branch_creation_failed runs no commit and no
\* push: the log of calls gets no entry and no branch, local or remote,
\* changes.
C36_FinalizeOnlyCommitsReadySessions ==
    [][(session.status \in FailedCreation /\ FinalizeCalled) =>
          /\ repo'.ops = repo.ops
          /\ repo'.commits = repo.commits
          /\ repo'.remote = repo.remote]_vars

\* The files whose content is not the one they had before process was called.
ChangedFiles == { f \in Files : repo.disk[f] # BaseTree[f] }

\* C37: when process has returned, every file whose content differs from its
\* content before the call is the target of a fix in the applied_fixes of the
\* result.
C37_ChangedFilesBelongToAppliedFixes ==
    (entry = "process" /\ agent.pc = "done") =>
        \A f \in ChangedFiles :
            \E i \in DOMAIN returned.applied_fixes :
                returned.applied_fixes[i].fix_plan.file_path = f

\* The str values found under a key that names sensitive data, in a sequence
\* of items and in the dicts below it.
RECURSIVE SensitiveEntries(_)
SensitiveEntries(items) ==
    UNION { (IF items[i].value.kind = "str"
             THEN (IF IsSensitive(items[i].key) THEN {items[i].value.s} ELSE {})
             ELSE SensitiveEntries(items[i].value.items)) : i \in DOMAIN items }

\* Every str value of a sequence of items and of the dicts below it.
RECURSIVE StringsIn(_)
StringsIn(items) ==
    UNION { (IF items[i].value.kind = "str" THEN {items[i].value.s}
             ELSE StringsIn(items[i].value.items)) : i \in DOMAIN items }

\* C39: no value that the metadata has under a key naming sensitive data, at
\* any nesting level, is a value of the processed metadata that is logged.
C39_SensitiveValuesNeverLogged ==
    meta.pc = "logged" => SensitiveEntries(meta.raw) \cap StringsIn(meta.processed) = {}

\* The groups of gs, one after the other.
RECURSIVE Flatten(_)
Flatten(gs) == IF gs = <<>> THEN <<>> ELSE Head(gs) \o Flatten(Tail(gs))

\* The groups of gs that hold plans of the file f.
GroupsFor(gs, f) == SelectSeq(gs, LAMBDA g : g # <<>> /\ g[1].file_path = f)

\* C40: the result of _group_fixes is a partition of its input.  No group is
\* empty or longer than max_fixes_per_branch, the plans of a group have one
\* file path, and for every file the groups of that file, one after the
\* other, are the plans of that file in their input order: every plan is in
\* exactly one group.
C40_GroupFixesPartitions ==
    grouping.pc = "returned" =>
        LET gs == grouping.groups
            plans == grouping.fix_plans
        IN  /\ \A i \in DOMAIN gs :
                  /\ gs[i] # <<>>
                  /\ Len(gs[i]) <= grouping.max_fixes_per_branch
                  /\ \A j \in DOMAIN gs[i] : gs[i][j].file_path = gs[i][1].file_path
            /\ Len(Flatten(gs)) = Len(plans)
            /\ \A f \in Files :
                  Flatten(GroupsFor(gs, f)) = SelectSeq(plans, LAMBDA p : p.file_path = f)

\* Four plans, three of them for A.java, were grouped with a
\* max_fixes_per_branch of 2: the plans of A.java were split in two groups.
C40_Witness ==
    /\ grouping.pc = "returned"
    /\ grouping.batch_similar_fixes
    /\ grouping.max_fixes_per_branch = 2
    /\ Len(grouping.fix_plans) = 4
    /\ grouping.fix_plans[2].file_path = "B.java"
    /\ Len(grouping.groups) = 3
    /\ Len(grouping.groups[1]) = 2
    /\ Len(grouping.groups[2]) = 1
    /\ grouping.groups[2][1] = grouping.fix_plans[4]
    /\ grouping.groups[3] = <<grouping.fix_plans[2]>>

\* What run i itself puts in a file of its clone.
OwnContents(i) == {"orig", FixedCode(i)}

\* C38: two runs on different branches, each on its own clone, do not touch
\* each other's changes under any interleaving.  No file of a run's clone and
\* no commit of a run holds a content the other run produced, and a commit of
\* a run holds the fixed code of every file the run applied a fix to.
C38_ConcurrentRunsAreIsolated ==
    \A i \in RunIds :
        LET r == runs.repo[i]
            cs == r.commits[BranchOf(i)]
        IN  /\ \A f \in Files : r.disk[f] \in OwnContents(i)
            /\ \A k \in DOMAIN cs, f \in Files :
                  /\ cs[k][f] \in OwnContents(i)
                  /\ f \in runs.applied[i] => cs[k][f] = FixedCode(i)

\* The same, for runs that do not share a backup directory.
C38_IsolatedBackupDirs == ~runs.same_cwd => C38_ConcurrentRunsAreIsolated

\* A run committed the other run's fixed code.
C38_CommittedTheOthersFix ==
    \E i \in RunIds, f \in Files :
        LET cs == runs.repo[i].commits[BranchOf(i)]
        IN  \E k \in DOMAIN cs : cs[k][f] \notin OwnContents(i)

====
